---- MODULE Spec2Model ----
(***************************************************************************)
(* Model of the classical-cryptography visualizer: the cipher functions    *)
(* (Caesar, Affine, Monoalphabetic, AES), the algorithm registry, and the  *)
(* pipeline runner of ProcessVisualization with the state of              *)
(* CryptoContext around it.                                                *)
(*                                                                         *)
(* Texts are sequences of UTF-16 code units, byte arrays are sequences of *)
(* numbers in 0..255.  Source arrays are 0-based: At(s, i) reads index i.  *)
(* A function that may throw returns an outcome record                     *)
(*   [ok |-> TRUE,  val |-> v,    err |-> <<>>]  (normal return)           *)
(*   [ok |-> FALSE, val |-> <<>>, err |-> msg]   (throw new Error(msg)),   *)
(* the message being a text as well.                                       *)
(***************************************************************************)
EXTENDS Integers, Sequences, FiniteSets, TLC

\* const v = value; F(v): the value is computed once, before F runs.
bind(value, F(_)) == CHOOSE result \in { F(v) : v \in { value } } : TRUE

At(s, i) == s[i + 1]

Ok(v) == [ok |-> TRUE, val |-> v, err |-> <<>>]

Throw(msg) == [ok |-> FALSE, val |-> <<>>, err |-> msg]

\* A statement sequence: F runs on the value of a call that returned, and an
\* exception of the call propagates.
andThen(outcome, F(_)) ==
  bind(outcome, LAMBDA returned : IF returned.ok THEN F(returned.val) ELSE returned)

\* try { return call } catch (error) { return F(error.message) }
orReturn(outcome, F(_)) ==
  bind(outcome, LAMBDA returned : IF returned.ok THEN returned ELSE Ok(F(returned.err)))

\* The sequence <<F(0), ..., F(n-1)>>, built element by element like the
\* source's for loops over a typed array.
RECURSIVE SeqOf(_, _)
SeqOf(F(_), n) == IF n = 0 THEN <<>> ELSE Append(SeqOf(F, n - 1), F(n - 1))

\* s.subarray(from, to) / s.substring(from, to), 0-based, to exclusive.
subarray(s, from, to) == SubSeq(s, from + 1, to)

\* The exclusive or of two 4-bit values: XorNibble[a + 1][b + 1].
XorNibble ==
  << << 0, 1, 2, 3, 4, 5, 6, 7, 8, 9, 10, 11, 12, 13, 14, 15 >>,
     << 1, 0, 3, 2, 5, 4, 7, 6, 9, 8, 11, 10, 13, 12, 15, 14 >>,
     << 2, 3, 0, 1, 6, 7, 4, 5, 10, 11, 8, 9, 14, 15, 12, 13 >>,
     << 3, 2, 1, 0, 7, 6, 5, 4, 11, 10, 9, 8, 15, 14, 13, 12 >>,
     << 4, 5, 6, 7, 0, 1, 2, 3, 12, 13, 14, 15, 8, 9, 10, 11 >>,
     << 5, 4, 7, 6, 1, 0, 3, 2, 13, 12, 15, 14, 9, 8, 11, 10 >>,
     << 6, 7, 4, 5, 2, 3, 0, 1, 14, 15, 12, 13, 10, 11, 8, 9 >>,
     << 7, 6, 5, 4, 3, 2, 1, 0, 15, 14, 13, 12, 11, 10, 9, 8 >>,
     << 8, 9, 10, 11, 12, 13, 14, 15, 0, 1, 2, 3, 4, 5, 6, 7 >>,
     << 9, 8, 11, 10, 13, 12, 15, 14, 1, 0, 3, 2, 5, 4, 7, 6 >>,
     << 10, 11, 8, 9, 14, 15, 12, 13, 2, 3, 0, 1, 6, 7, 4, 5 >>,
     << 11, 10, 9, 8, 15, 14, 13, 12, 3, 2, 1, 0, 7, 6, 5, 4 >>,
     << 12, 13, 14, 15, 8, 9, 10, 11, 4, 5, 6, 7, 0, 1, 2, 3 >>,
     << 13, 12, 15, 14, 9, 8, 11, 10, 5, 4, 7, 6, 1, 0, 3, 2 >>,
     << 14, 15, 12, 13, 10, 11, 8, 9, 6, 7, 4, 5, 2, 3, 0, 1 >>,
     << 15, 14, 13, 12, 11, 10, 9, 8, 7, 6, 5, 4, 3, 2, 1, 0 >> >>

\* JavaScript's ^ on non-negative integers below 2^31, four bits at a time.
RECURSIVE Xor(_, _)
Xor(a, b) ==
  bind(<< a, b >>, LAMBDA operands :
    IF operands[1] = 0 THEN operands[2]
    ELSE IF operands[2] = 0 THEN operands[1]
    ELSE XorNibble[(operands[1] % 16) + 1][(operands[2] % 16) + 1]
           + 16 * Xor(operands[1] \div 16, operands[2] \div 16))

(***************************************************************************)
(* AES (aesCipher.ts)                                                      *)
(***************************************************************************)
SBOX ==
  << 99, 124, 119, 123, 242, 107, 111, 197, 48, 1, 103, 43, 254, 215, 171, 118,
     202, 130, 201, 125, 250, 89, 71, 240, 173, 212, 162, 175, 156, 164, 114, 192,
     183, 253, 147, 38, 54, 63, 247, 204, 52, 165, 229, 241, 113, 216, 49, 21,
     4, 199, 35, 195, 24, 150, 5, 154, 7, 18, 128, 226, 235, 39, 178, 117,
     9, 131, 44, 26, 27, 110, 90, 160, 82, 59, 214, 179, 41, 227, 47, 132,
     83, 209, 0, 237, 32, 252, 177, 91, 106, 203, 190, 57, 74, 76, 88, 207,
     208, 239, 170, 251, 67, 77, 51, 133, 69, 249, 2, 127, 80, 60, 159, 168,
     81, 163, 64, 143, 146, 157, 56, 245, 188, 182, 218, 33, 16, 255, 243, 210,
     205, 12, 19, 236, 95, 151, 68, 23, 196, 167, 126, 61, 100, 93, 25, 115,
     96, 129, 79, 220, 34, 42, 144, 136, 70, 238, 184, 20, 222, 94, 11, 219,
     224, 50, 58, 10, 73, 6, 36, 92, 194, 211, 172, 98, 145, 149, 228, 121,
     231, 200, 55, 109, 141, 213, 78, 169, 108, 86, 244, 234, 101, 122, 174, 8,
     186, 120, 37, 46, 28, 166, 180, 198, 232, 221, 116, 31, 75, 189, 139, 138,
     112, 62, 181, 102, 72, 3, 246, 14, 97, 53, 87, 185, 134, 193, 29, 158,
     225, 248, 152, 17, 105, 217, 142, 148, 155, 30, 135, 233, 206, 85, 40, 223,
     140, 161, 137, 13, 191, 230, 66, 104, 65, 153, 45, 15, 176, 84, 187, 22 >>

INV_SBOX ==
  << 82, 9, 106, 213, 48, 54, 165, 56, 191, 64, 163, 158, 129, 243, 215, 251,
     124, 227, 57, 130, 155, 47, 255, 135, 52, 142, 67, 68, 196, 222, 233, 203,
     84, 123, 148, 50, 166, 194, 35, 61, 238, 76, 149, 11, 66, 250, 195, 78,
     8, 46, 161, 102, 40, 217, 36, 178, 118, 91, 162, 73, 109, 139, 209, 37,
     114, 248, 246, 100, 134, 104, 152, 22, 212, 164, 92, 204, 93, 101, 182, 146,
     108, 112, 72, 80, 253, 237, 185, 218, 94, 21, 70, 87, 167, 141, 157, 132,
     144, 216, 171, 0, 140, 188, 211, 10, 247, 228, 88, 5, 184, 179, 69, 6,
     208, 44, 30, 143, 202, 63, 15, 2, 193, 175, 189, 3, 1, 19, 138, 107,
     58, 145, 17, 65, 79, 103, 220, 234, 151, 242, 207, 206, 240, 180, 230, 115,
     150, 172, 116, 34, 231, 173, 53, 133, 226, 249, 55, 232, 28, 117, 223, 110,
     71, 241, 26, 113, 29, 41, 197, 137, 111, 183, 98, 14, 170, 24, 190, 27,
     252, 86, 62, 75, 198, 210, 121, 32, 154, 219, 192, 254, 120, 205, 90, 244,
     31, 221, 168, 51, 136, 7, 199, 49, 177, 18, 16, 89, 39, 128, 236, 95,
     96, 81, 127, 169, 25, 181, 74, 13, 45, 229, 122, 159, 147, 201, 156, 239,
     160, 224, 59, 77, 174, 42, 245, 176, 200, 235, 187, 60, 131, 83, 153, 97,
     23, 43, 4, 126, 186, 119, 214, 38, 225, 105, 20, 99, 85, 33, 12, 125 >>

RCON ==
  << 1, 2, 4, 8, 16, 32, 64, 128, 27, 54, 108, 216, 171, 77, 154, 47 >>

\* "Invalid key length. Must be 16, 24, or 32 bytes (128, 192, or 256 bits)."
KeyLengthError ==
  << 73, 110, 118, 97, 108, 105, 100, 32, 107, 101, 121, 32, 108, 101, 110, 103, 116,
     104, 46, 32, 77, 117, 115, 116, 32, 98, 101, 32, 49, 54, 44, 32, 50, 52, 44, 32,
     111, 114, 32, 51, 50, 32, 98, 121, 116, 101, 115, 32, 40, 49, 50, 56, 44, 32, 49,
     57, 50, 44, 32, 111, 114, 32, 50, 53, 54, 32, 98, 105, 116, 115, 41, 46 >>

\* "Plaintext must be 16 bytes (128 bits)"
PlaintextLengthError ==
  << 80, 108, 97, 105, 110, 116, 101, 120, 116, 32, 109, 117, 115, 116, 32, 98, 101,
     32, 49, 54, 32, 98, 121, 116, 101, 115, 32, 40, 49, 50, 56, 32, 98, 105, 116, 115,
     41 >>

\* "Ciphertext must be 16 bytes (128 bits)"
CiphertextBlockLengthError ==
  << 67, 105, 112, 104, 101, 114, 116, 101, 120, 116, 32, 109, 117, 115, 116, 32, 98,
     101, 32, 49, 54, 32, 98, 121, 116, 101, 115, 32, 40, 49, 50, 56, 32, 98, 105, 116,
     115, 41 >>

getKeyParams(keyLength) ==
  CASE keyLength = 16 -> [ok |-> TRUE, keySize |-> 128, nk |-> 4, nr |-> 10, err |-> <<>>]
    [] keyLength = 24 -> [ok |-> TRUE, keySize |-> 192, nk |-> 6, nr |-> 12, err |-> <<>>]
    [] keyLength = 32 -> [ok |-> TRUE, keySize |-> 256, nk |-> 8, nr |-> 14, err |-> <<>>]
    [] OTHER -> [ok |-> FALSE, keySize |-> 0, nk |-> 0, nr |-> 0, err |-> KeyLengthError]

\* The 16 bytes <<F(0), ..., F(15)>> of a state or round key, and the 4 bytes
\* of a word.
Bytes16(F(_)) ==
  << F(0), F(1), F(2), F(3), F(4), F(5), F(6), F(7),
     F(8), F(9), F(10), F(11), F(12), F(13), F(14), F(15) >>

Bytes4(F(_)) == << F(0), F(1), F(2), F(3) >>

subBytes(state) == Bytes16(LAMBDA i : At(SBOX, At(state, i)))

invSubBytes(state) == Bytes16(LAMBDA i : At(INV_SBOX, At(state, i)))

\* The index each state byte is read from, in the order of the state.
shiftRowsFrom == << 0, 5, 10, 15, 4, 9, 14, 3, 8, 13, 2, 7, 12, 1, 6, 11 >>

\* A faulty ShiftRows that leaves the rows where they are.
shiftRowsUnshifted(state) == state

shiftRows(state) == Bytes16(LAMBDA i : At(state, At(shiftRowsFrom, i)))

\* A faulty inverse that leaves the rows where they are.
invShiftRowsUnshifted(state) == state

invShiftRowsFrom == << 0, 13, 10, 7, 4, 1, 14, 11, 8, 5, 2, 15, 12, 9, 6, 3 >>

invShiftRows(state) == Bytes16(LAMBDA i : At(state, At(invShiftRowsFrom, i)))

\* A faulty multiplication: the product of the integers, cut to 8 bits.
gmulOfIntegers(a, b) == (a * b) % 256

\* One pass of gmul's loop per call: p, a and b after i passes.
RECURSIVE gmulLoop(_, _, _, _)
gmulLoop(p, a, b, i) ==
  IF i = 8 THEN p % 256
  ELSE bind(<< IF b % 2 # 0 THEN Xor(p, a) ELSE p,
               IF (a \div 128) % 2 # 0 THEN Xor(a * 2, 27) ELSE a * 2,
               b \div 2 >>,
            LAMBDA pass : gmulLoop(pass[1], pass[2], pass[3], i + 1))

gmul(a, b) == gmulLoop(0, a, b, 0)

\* Storing into a Uint8Array keeps the low 8 bits.
U8(x) == x % 256

Xor4(a, b, c, d) == Xor(Xor(Xor(a, b), c), d)

mixColumn(t) ==
  << U8(Xor4(gmul(2, t[1]), gmul(3, t[2]), t[3], t[4])),
     U8(Xor4(t[1], gmul(2, t[2]), gmul(3, t[3]), t[4])),
     U8(Xor4(t[1], t[2], gmul(2, t[3]), gmul(3, t[4]))),
     U8(Xor4(gmul(3, t[1]), t[2], t[3], gmul(2, t[4]))) >>

mixColumns(state) ==
  mixColumn(subarray(state, 0, 4)) \o mixColumn(subarray(state, 4, 8))
    \o mixColumn(subarray(state, 8, 12)) \o mixColumn(subarray(state, 12, 16))

invMixColumn(t) ==
  << U8(Xor4(gmul(14, t[1]), gmul(11, t[2]), gmul(13, t[3]), gmul(9, t[4]))),
     U8(Xor4(gmul(9, t[1]), gmul(14, t[2]), gmul(11, t[3]), gmul(13, t[4]))),
     U8(Xor4(gmul(13, t[1]), gmul(9, t[2]), gmul(14, t[3]), gmul(11, t[4]))),
     U8(Xor4(gmul(11, t[1]), gmul(13, t[2]), gmul(9, t[3]), gmul(14, t[4]))) >>

invMixColumns(state) ==
  invMixColumn(subarray(state, 0, 4)) \o invMixColumn(subarray(state, 4, 8))
    \o invMixColumn(subarray(state, 8, 12)) \o invMixColumn(subarray(state, 12, 16))

addRoundKey(state, roundKey) ==
  Bytes16(LAMBDA i : Xor(At(state, i), At(roundKey, i)))

\* The word temp of keyExpansion for word index i, from the previous word.
expansionTemp(prev, i, nk) ==
  IF i % nk = 0
    THEN << Xor(At(SBOX, prev[2]), At(RCON, (i \div nk) - 1)),
            At(SBOX, prev[3]), At(SBOX, prev[4]), At(SBOX, prev[1]) >>
    ELSE IF nk > 6 /\ i % nk = 4
      THEN << At(SBOX, prev[1]), At(SBOX, prev[2]), At(SBOX, prev[3]), At(SBOX, prev[4]) >>
      ELSE prev

\* The expanded key after the passes lo .. hi-1 of keyExpansion's loop over
\* the word index i, expandedKey holding the 4 * lo bytes written before them;
\* the passes are taken half by half, the second half on the result of the
\* first.
RECURSIVE keyExpansionLoop(_, _, _, _)
keyExpansionLoop(expandedKey, lo, hi, nk) ==
  IF lo >= hi THEN expandedKey
  ELSE IF lo + 1 = hi
    THEN expandedKey
           \o Bytes4(LAMBDA j :
                       Xor(At(expandedKey, (lo - nk) * 4 + j),
                           At(expansionTemp(subarray(expandedKey, (lo - 1) * 4, lo * 4),
                                            lo, nk), j)))
  ELSE bind(keyExpansionLoop(expandedKey, lo, (lo + hi) \div 2, nk), LAMBDA firstHalf :
         keyExpansionLoop(firstHalf, (lo + hi) \div 2, hi, nk))

keyExpansion(key, params) ==
  bind(key, LAMBDA expandedKey :
    keyExpansionLoop(expandedKey, params.nk, (params.nr + 1) * 4, params.nk))

roundKeyOf(roundKeys, round) == subarray(roundKeys, round * 16, (round + 1) * 16)

\* The main rounds round .. nr-1 on the 16-byte state, taken half by half.
RECURSIVE encryptRounds(_, _, _, _)
encryptRounds(state, roundKeys, round, nr) ==
  IF round >= nr THEN state
  ELSE IF round + 1 = nr
    THEN bind(subBytes(state), LAMBDA substituted :
           bind(shiftRows(substituted), LAMBDA shifted :
             bind(mixColumns(shifted), LAMBDA mixed :
               addRoundKey(mixed, roundKeyOf(roundKeys, round)))))
  ELSE bind(encryptRounds(state, roundKeys, round, (round + nr) \div 2), LAMBDA firstHalf :
         encryptRounds(firstHalf, roundKeys, (round + nr) \div 2, nr))

aesEncryptBlock(plaintext, key) ==
  IF Len(plaintext) # 16 THEN Throw(PlaintextLengthError)
  ELSE LET keyParams == getKeyParams(Len(key)) IN
    IF ~keyParams.ok THEN Throw(keyParams.err)
    ELSE bind(keyExpansion(key, keyParams), LAMBDA roundKeys :
           bind(addRoundKey(plaintext, roundKeyOf(roundKeys, 0)), LAMBDA s0 :
             bind(encryptRounds(s0, roundKeys, 1, keyParams.nr), LAMBDA s1 :
               bind(shiftRows(subBytes(s1)), LAMBDA shifted :
                 Ok(addRoundKey(shifted, roundKeyOf(roundKeys, keyParams.nr)))))))

\* The main rounds round, round - 1, .. last on the 16-byte state, taken half
\* by half.
RECURSIVE decryptRounds(_, _, _, _)
decryptRounds(state, roundKeys, round, last) ==
  IF round < last THEN state
  ELSE IF round = last
    THEN bind(invShiftRows(state), LAMBDA shifted :
           bind(invSubBytes(shifted), LAMBDA substituted :
             bind(addRoundKey(substituted, roundKeyOf(roundKeys, round)), LAMBDA keyed :
               invMixColumns(keyed))))
  ELSE bind(decryptRounds(state, roundKeys, round, (round + last + 1) \div 2),
            LAMBDA firstHalf :
              decryptRounds(firstHalf, roundKeys, ((round + last + 1) \div 2) - 1, last))

aesDecryptBlock(ciphertext, key) ==
  IF Len(ciphertext) # 16 THEN Throw(CiphertextBlockLengthError)
  ELSE LET keyParams == getKeyParams(Len(key)) IN
    IF ~keyParams.ok THEN Throw(keyParams.err)
    ELSE bind(keyExpansion(key, keyParams), LAMBDA roundKeys :
           bind(addRoundKey(ciphertext, roundKeyOf(roundKeys, keyParams.nr)), LAMBDA s0 :
             bind(decryptRounds(s0, roundKeys, keyParams.nr - 1, 1), LAMBDA s1 :
               bind(invSubBytes(invShiftRows(s1)), LAMBDA substituted :
                 Ok(addRoundKey(substituted, roundKeyOf(roundKeys, 0)))))))

\* "Hex string must have an even number of characters"
HexLengthError ==
  << 72, 101, 120, 32, 115, 116, 114, 105, 110, 103, 32, 109, 117, 115, 116, 32, 104,
     97, 118, 101, 32, 97, 110, 32, 101, 118, 101, 110, 32, 110, 117, 109, 98, 101, 114,
     32, 111, 102, 32, 99, 104, 97, 114, 97, 99, 116, 101, 114, 115 >>

\* "Invalid padded data length"
PaddedLengthError ==
  << 73, 110, 118, 97, 108, 105, 100, 32, 112, 97, 100, 100, 101, 100, 32, 100, 97,
     116, 97, 32, 108, 101, 110, 103, 116, 104 >>

\* "Invalid padding value"
PaddingValueError ==
  << 73, 110, 118, 97, 108, 105, 100, 32, 112, 97, 100, 100, 105, 110, 103, 32, 118,
     97, 108, 117, 101 >>

\* "Invalid padding"
PaddingError ==
  << 73, 110, 118, 97, 108, 105, 100, 32, 112, 97, 100, 100, 105, 110, 103 >>

\* "Ciphertext length must be a multiple of 16 bytes"
CiphertextLengthError ==
  << 67, 105, 112, 104, 101, 114, 116, 101, 120, 116, 32, 108, 101, 110, 103, 116,
     104, 32, 109, 117, 115, 116, 32, 98, 101, 32, 97, 32, 109, 117, 108, 116, 105, 112,
     108, 101, 32, 111, 102, 32, 49, 54, 32, 98, 121, 116, 101, 115 >>

(***************************************************************************)
(* Text codecs (aesCipher.ts)                                              *)
(***************************************************************************)
\* F(lo) \o ... \o F(hi), split in halves.
RECURSIVE ConcatOver(_, _, _)
ConcatOver(F(_), lo, hi) ==
  IF lo > hi THEN <<>>
  ELSE IF lo = hi THEN F(lo)
  ELSE LET mid == (lo + hi) \div 2
       IN ConcatOver(F, lo, mid) \o ConcatOver(F, mid + 1, hi)

IsHighSurrogate(c) == c >= 55296 /\ c <= 56319

IsLowSurrogate(c) == c >= 56320 /\ c <= 57343

\* The UTF-8 bytes of one code point.
Utf8Bytes(cp) ==
  IF cp < 128 THEN << cp >>
  ELSE IF cp < 2048 THEN << 192 + (cp \div 64), 128 + (cp % 64) >>
  ELSE IF cp < 65536
    THEN << 224 + (cp \div 4096), 128 + ((cp \div 64) % 64), 128 + (cp % 64) >>
    ELSE << 240 + (cp \div 262144), 128 + ((cp \div 4096) % 64),
            128 + ((cp \div 64) % 64), 128 + (cp % 64) >>

\* TextEncoder.encode: a surrogate pair is one code point, a lone surrogate is
\* encoded as U+FFFD.
stringToUint8Array(str) ==
  LET unit(i) ==
        LET c == str[i] IN
        IF IsHighSurrogate(c)
          THEN IF i < Len(str) /\ IsLowSurrogate(str[i + 1])
                 THEN Utf8Bytes(65536 + (c - 55296) * 1024 + (str[i + 1] - 56320))
                 ELSE Utf8Bytes(65533)
        ELSE IF IsLowSurrogate(c)
          THEN IF i > 1 /\ IsHighSurrogate(str[i - 1]) THEN <<>> ELSE Utf8Bytes(65533)
        ELSE Utf8Bytes(c)
  IN ConcatOver(unit, 1, Len(str))

\* The UTF-16 code units of one decoded code point.
Utf16Units(cp) ==
  IF cp < 65536 THEN << cp >>
  ELSE << 55296 + ((cp - 65536) \div 1024), 56320 + ((cp - 65536) % 1024) >>

IsContinuation(bytes, i, lo, hi) == i <= Len(bytes) /\ bytes[i] >= lo /\ bytes[i] <= hi

\* The UTF-8 decoder from byte i (1-based) on: an ill-formed sequence yields
\* U+FFFD and decoding resumes at the byte that broke it.
RECURSIVE Utf8DecodeFrom(_, _)
Utf8DecodeFrom(bytes, i) ==
  IF i > Len(bytes) THEN <<>>
  ELSE LET b == bytes[i] IN
    IF b < 128 THEN << b >> \o Utf8DecodeFrom(bytes, i + 1)
    ELSE IF b >= 194 /\ b <= 223
      THEN IF IsContinuation(bytes, i + 1, 128, 191)
             THEN Utf16Units((b - 192) * 64 + (bytes[i + 1] - 128))
                    \o Utf8DecodeFrom(bytes, i + 2)
             ELSE << 65533 >> \o Utf8DecodeFrom(bytes, i + 1)
    ELSE IF b >= 224 /\ b <= 239
      THEN LET lo == IF b = 224 THEN 160 ELSE 128
               hi == IF b = 237 THEN 159 ELSE 191
           IN IF ~IsContinuation(bytes, i + 1, lo, hi)
                THEN << 65533 >> \o Utf8DecodeFrom(bytes, i + 1)
              ELSE IF ~IsContinuation(bytes, i + 2, 128, 191)
                THEN << 65533 >> \o Utf8DecodeFrom(bytes, i + 2)
              ELSE Utf16Units((b - 224) * 4096 + (bytes[i + 1] - 128) * 64
                                + (bytes[i + 2] - 128))
                     \o Utf8DecodeFrom(bytes, i + 3)
    ELSE IF b >= 240 /\ b <= 244
      THEN LET lo == IF b = 240 THEN 144 ELSE 128
               hi == IF b = 244 THEN 143 ELSE 191
           IN IF ~IsContinuation(bytes, i + 1, lo, hi)
                THEN << 65533 >> \o Utf8DecodeFrom(bytes, i + 1)
              ELSE IF ~IsContinuation(bytes, i + 2, 128, 191)
                THEN << 65533 >> \o Utf8DecodeFrom(bytes, i + 2)
              ELSE IF ~IsContinuation(bytes, i + 3, 128, 191)
                THEN << 65533 >> \o Utf8DecodeFrom(bytes, i + 3)
              ELSE Utf16Units((b - 240) * 262144 + (bytes[i + 1] - 128) * 4096
                                + (bytes[i + 2] - 128) * 64 + (bytes[i + 3] - 128))
                     \o Utf8DecodeFrom(bytes, i + 4)
    ELSE << 65533 >> \o Utf8DecodeFrom(bytes, i + 1)

\* new TextDecoder('utf-8').decode: ignoreBOM is false, so a leading
\* EF BB BF is dropped.
uint8ArrayToString(bytes) ==
  IF Len(bytes) >= 3 /\ bytes[1] = 239 /\ bytes[2] = 187 /\ bytes[3] = 191
    THEN Utf8DecodeFrom(bytes, 4)
    ELSE Utf8DecodeFrom(bytes, 1)

\* The characters matched by \s in a JavaScript regular expression.
IsWhiteSpace(c) ==
  \/ c \in {9, 10, 11, 12, 13, 32, 160, 5760, 8232, 8233, 8239, 8287, 12288, 65279}
  \/ c >= 8192 /\ c <= 8202

\* The value of a hexadecimal digit, -1 for any other character.
HexDigit(c) ==
  IF c >= 48 /\ c <= 57 THEN c - 48
  ELSE IF c >= 97 /\ c <= 102 THEN c - 87
  ELSE IF c >= 65 /\ c <= 70 THEN c - 55
  ELSE -1

\* parseInt(c1 c2, 16) stored into a Uint8Array: the longest prefix of
\* hexadecimal digits after an optional sign and an optional 0x; NaN is stored
\* as 0 and a negative value modulo 256.
parseHexPair(c1, c2) ==
  LET d1 == HexDigit(c1)
      d2 == HexDigit(c2)
  IN IF c1 = 45 THEN (IF d2 >= 0 THEN (256 - d2) % 256 ELSE 0)
     ELSE IF c1 = 43 THEN (IF d2 >= 0 THEN d2 ELSE 0)
     ELSE IF c1 = 48 /\ c2 \in {120, 88} THEN 0
     ELSE IF d1 < 0 THEN 0
     ELSE IF d2 < 0 THEN d1
     ELSE 16 * d1 + d2

hexToUint8Array(hexStr) ==
  LET hex == SelectSeq(hexStr, LAMBDA c : ~IsWhiteSpace(c)) IN
  IF Len(hex) % 2 # 0 THEN Throw(HexLengthError)
  ELSE Ok([k \in 1..(Len(hex) \div 2) |-> parseHexPair(hex[2 * k - 1], hex[2 * k])])

\* b.toString(16) digit.
HexChar(d) == IF d < 10 THEN 48 + d ELSE 87 + d

uint8ArrayToHex(bytes) ==
  [k \in 1..(2 * Len(bytes)) |->
     IF k % 2 = 1 THEN HexChar(bytes[(k + 1) \div 2] \div 16)
     ELSE HexChar(bytes[k \div 2] % 16)]

(***************************************************************************)
(* AES message level (aesCipher.ts)                                        *)
(***************************************************************************)
\* A faulty padding that adds no block to block-aligned data.
padPKCS7Aligned(data) ==
  LET paddingLength == (16 - (Len(data) % 16)) % 16
  IN data \o [i \in 1..paddingLength |-> paddingLength]

padPKCS7(data) ==
  LET blockSize == 16
      paddingLength == blockSize - (Len(data) % blockSize)
  IN data \o [i \in 1..paddingLength |-> paddingLength]

unpadPKCS7(data) ==
  IF Len(data) = 0 \/ Len(data) % 16 # 0 THEN Throw(PaddedLengthError)
  ELSE LET paddingLength == data[Len(data)] IN
    IF paddingLength > 16 THEN Throw(PaddingValueError)
    ELSE IF \E i \in (Len(data) - paddingLength + 1)..Len(data) : data[i] # paddingLength
      THEN Throw(PaddingError)
      ELSE Ok(subarray(data, 0, Len(data) - paddingLength))

\* Blocks i .. numBlocks-1 of the loop of aesEncrypt / aesDecrypt, with the
\* first block error, if any, thrown out of the loop.
RECURSIVE blocksFrom(_, _, _, _)
blocksFrom(BlockOp(_, _), data, key, i) ==
  IF i >= Len(data) \div 16 THEN Ok(<<>>)
  ELSE andThen(BlockOp(subarray(data, i * 16, (i + 1) * 16), key), LAMBDA block :
         andThen(blocksFrom(BlockOp, data, key, i + 1), LAMBDA rest : Ok(block \o rest)))

aesEncrypt(plaintext, key) ==
  bind(padPKCS7(plaintext), LAMBDA paddedData : blocksFrom(aesEncryptBlock, paddedData, key, 0))

aesDecrypt(ciphertext, key) ==
  IF Len(ciphertext) % 16 # 0
    THEN Throw(CiphertextLengthError)
  ELSE andThen(blocksFrom(aesDecryptBlock, ciphertext, key, 0), unpadPKCS7)

\* isHexKey keeps its default, false: the key is the text's UTF-8 bytes.
aesEncryptText(text, keyText) ==
  bind(stringToUint8Array(text), LAMBDA plaintextBytes :
    bind(stringToUint8Array(keyText), LAMBDA keyBytes :
      andThen(aesEncrypt(plaintextBytes, keyBytes),
              LAMBDA ciphertext : Ok(uint8ArrayToHex(ciphertext)))))

aesDecryptText(hexCiphertext, keyText) ==
  andThen(hexToUint8Array(hexCiphertext), LAMBDA ciphertextBytes :
    bind(stringToUint8Array(keyText), LAMBDA keyBytes :
      andThen(aesDecrypt(ciphertextBytes, keyBytes),
              LAMBDA plaintextBytes : Ok(uint8ArrayToString(plaintextBytes)))))

validateAesKey(key) ==
  LET keyBytes == stringToUint8Array(key)
  IN Len(keyBytes) = 16 \/ Len(keyBytes) = 24 \/ Len(keyBytes) = 32

(***************************************************************************)
(* Classical ciphers                                                       *)
(***************************************************************************)
\* JavaScript's %: the remainder takes the sign of the dividend.
JsRem(a, b) ==
  LET m == IF b < 0 THEN -b ELSE b
  IN IF a >= 0 THEN a % m ELSE -((-a) % m)

\* String.fromCharCode(n): n as an unsigned 16-bit code unit.
fromCharCode(n) == n % 65536

IsUpper(c) == c >= 65 /\ c <= 90

IsLower(c) == c >= 97 /\ c <= 122

\* text.split('').map(F).join('') for an F that yields one code unit.
MapChars(F(_), text) ==
  IF Len(text) = 0 THEN <<>> ELSE [i \in 1..Len(text) |-> F(text[i])]

\* A faulty encryption that takes shift % 26 without making it non-negative.
caesarEncryptUnnormalised(text, shift) ==
  LET s == JsRem(shift, 26)
      enc(c) == IF IsUpper(c) THEN fromCharCode(JsRem(c - 65 + s, 26) + 65)
                ELSE IF IsLower(c) THEN fromCharCode(JsRem(c - 97 + s, 26) + 97)
                ELSE c
  IN MapChars(enc, text)

caesarEncrypt(text, shift) ==
  LET s == JsRem(JsRem(shift, 26) + 26, 26)
      enc(c) == IF IsUpper(c) THEN fromCharCode(JsRem(c - 65 + s, 26) + 65)
                ELSE IF IsLower(c) THEN fromCharCode(JsRem(c - 97 + s, 26) + 97)
                ELSE c
  IN MapChars(enc, text)

\* A faulty decryption that shifts forward again.
caesarDecryptForward(text, shift) == caesarEncrypt(text, shift)

caesarDecrypt(text, shift) == caesarEncrypt(text, 26 - JsRem(shift, 26))

\* Keys typed into a number field are integers here.
validateCaesarKey(key) == key \in Int /\ key >= 0 /\ key <= 25

RECURSIVE gcd(_, _)
gcd(x, y) == IF y = 0 THEN x ELSE gcd(y, JsRem(x, y))

\* The decimal digits of `${n}`.
RECURSIVE Decimal(_)
Decimal(n) ==
  IF n < 0 THEN << 45 >> \o Decimal(-n)
  ELSE IF n < 10 THEN << 48 + n >>
  ELSE Decimal(n \div 10) \o << 48 + (n % 10) >>

\* " and "
AndText ==
  << 32, 97, 110, 100, 32 >>
\* " are not coprime"
NotCoprimeText ==
  << 32, 97, 114, 101, 32, 110, 111, 116, 32, 99, 111, 112, 114, 105, 109, 101 >>
\* A faulty inverse: a itself.
modInverseOfItself(a, m) == Ok(a)

modInverse(a, m) ==
  IF gcd(a, m) # 1 THEN Throw(Decimal(a) \o AndText \o Decimal(m) \o NotCoprimeText)
  ELSE IF \E i \in 1..(m - 1) : JsRem(a * i, m) = 1
    THEN Ok(CHOOSE i \in 1..(m - 1) :
              /\ JsRem(a * i, m) = 1
              /\ \A k \in 1..(i - 1) : JsRem(a * k, m) # 1)
    ELSE Ok(1)

\* "The value of "a" must be coprime with 26"
AffineCoprimeError ==
  << 84, 104, 101, 32, 118, 97, 108, 117, 101, 32, 111, 102, 32, 34, 97, 34, 32, 109,
     117, 115, 116, 32, 98, 101, 32, 99, 111, 112, 114, 105, 109, 101, 32, 119, 105, 116,
     104, 32, 50, 54 >>
affineEncrypt(text, key) ==
  LET a == key.a
      b == key.b
      enc(c) == IF IsUpper(c) THEN fromCharCode(JsRem(a * (c - 65) + b, 26) + 65)
                ELSE IF IsLower(c) THEN fromCharCode(JsRem(a * (c - 97) + b, 26) + 97)
                ELSE c
  IN IF gcd(a, 26) # 1 THEN Throw(AffineCoprimeError) ELSE Ok(MapChars(enc, text))

\* "Error: "
ErrorPrefix ==
  << 69, 114, 114, 111, 114, 58, 32 >>
\* The try block's outcome: the decrypted text, or the error modInverse throws.
affineDecryptTry(text, key) ==
  LET a == key.a
      b == key.b
      aInverse == modInverse(a, 26)
      dec(c) ==
        IF IsUpper(c) THEN fromCharCode(JsRem(aInverse.val * (c - 65 - b + 26), 26) + 65)
        ELSE IF IsLower(c) THEN fromCharCode(JsRem(aInverse.val * (c - 97 - b + 26), 26) + 97)
        ELSE c
  IN IF ~aInverse.ok THEN aInverse ELSE Ok(MapChars(dec, text))

\* The catch clause returns the message as the function's string result.
affineDecrypt(text, key) ==
  orReturn(affineDecryptTry(text, key), LAMBDA error : ErrorPrefix \o error)

\* A faulty validator that leaves out the test of gcd(a, 26).
validateAffineKeyRangeOnly(key) ==
  key.a \in Int /\ key.b \in Int /\ key.a >= 1 /\ key.a <= 25 /\ key.b >= 0 /\ key.b <= 25

validateAffineKey(key) ==
  LET a == key.a
      b == key.b
  IN IF a \notin Int \/ b \notin Int THEN FALSE
     ELSE IF a < 1 \/ a > 25 \/ b < 0 \/ b > 25 THEN FALSE
     ELSE gcd(a, 26) = 1

\* "ABCDEFGHIJKLMNOPQRSTUVWXYZ"
ALPHABET ==
  << 65, 66, 67, 68, 69, 70, 71, 72, 73, 74, 75, 76, 77, 78, 79, 80, 81, 82, 83, 84,
     85, 86, 87, 88, 89, 90 >>
\* The upper-case mapping of one character: the ASCII letters, and the cased
\* characters beyond ASCII that the keys of the model hold (U+00DF sharp s
\* becomes "SS", U+FB01 the ligature fi becomes "FI", U+017F long s becomes
\* "S"); any other character stays.
toUpperCaseChar(c) ==
  IF IsLower(c) THEN << c - 32 >>
  ELSE IF c = 223 THEN << 83, 83 >>
  ELSE IF c = 64257 THEN << 70, 73 >>
  ELSE IF c = 383 THEN << 83 >>
  ELSE << c >>

\* String.prototype.toUpperCase: the result may be longer than the text.
toUpperCase(text) == ConcatOver(LAMBDA i : toUpperCaseChar(text[i]), 1, Len(text))

toLowerCaseChar(c) == IF IsUpper(c) THEN c + 32 ELSE c

\* indexOf: the 0-based index of the first occurrence of c in s, or -1.
indexOf(s, c) ==
  IF \E i \in 1..Len(s) : s[i] = c
    THEN (CHOOSE i \in 1..Len(s) : s[i] = c /\ \A k \in 1..(i - 1) : s[k] # c) - 1
    ELSE -1

validateMonoalphabeticKey(keyText) ==
  \E key \in { toUpperCase(keyText) } :
     IF Len(key) # 26 THEN FALSE
     ELSE IF \E i \in 1..26 : ~IsUpper(key[i]) THEN FALSE
     ELSE IF \E i, k \in 1..26 : i < k /\ key[i] = key[k] THEN FALSE
     ELSE Cardinality({key[i] : i \in 1..26}) = 26

\* "Invalid substitution key"
InvalidSubstitutionKeyError ==
  << 73, 110, 118, 97, 108, 105, 100, 32, 115, 117, 98, 115, 116, 105, 116, 117, 116,
     105, 111, 110, 32, 107, 101, 121 >>
monoalphabeticEncrypt(text, keyText) ==
  CHOOSE outcome \in
    { IF ~validateMonoalphabeticKey(key) THEN Throw(InvalidSubstitutionKeyError)
      ELSE Ok(MapChars(LAMBDA c :
                         IF IsUpper(c) THEN At(key, indexOf(ALPHABET, c))
                         ELSE IF IsLower(c)
                           THEN toLowerCaseChar(At(key, indexOf(ALPHABET, c - 32)))
                         ELSE c,
                       text)) : key \in { toUpperCase(keyText) } } : TRUE

\* A faulty decryption that substitutes forward again.
monoalphabeticDecryptForward(text, keyText) == monoalphabeticEncrypt(text, keyText)

monoalphabeticDecrypt(text, keyText) ==
  CHOOSE outcome \in
    { IF ~validateMonoalphabeticKey(key) THEN Throw(InvalidSubstitutionKeyError)
      ELSE Ok(MapChars(LAMBDA c :
                         IF IsUpper(c) THEN At(ALPHABET, indexOf(key, c))
                         ELSE IF IsLower(c)
                           THEN toLowerCaseChar(At(ALPHABET, indexOf(key, c - 32)))
                         ELSE c,
                       text)) : key \in { toUpperCase(keyText) } } : TRUE

(***************************************************************************)
(* The algorithm registry (algorithmData.ts)                               *)
(***************************************************************************)
\* "Decryption failed. Please check your key and ciphertext."
DecryptionFailedText ==
  << 68, 101, 99, 114, 121, 112, 116, 105, 111, 110, 32, 102, 97, 105, 108, 101, 100, 46, 32, 80, 108, 101, 97, 115, 101, 32, 99, 104, 101, 99, 107, 32, 121, 111, 117, 114, 32, 107, 101, 121, 32, 97, 110, 100, 32, 99, 105, 112, 104, 101, 114, 116, 101, 120, 116, 46 >>

\* "AESSecureKey12345"
AesDefaultKey ==
  << 65, 69, 83, 83, 101, 99, 117, 114, 101, 75, 101, 121, 49, 50, 51, 52, 53 >>

\* The registered algorithms, in the order of the array; the functions of an
\* entry are the operators encrypt, decrypt and keyValidator below.
algorithmData ==
  << [id |-> "caesar", name |-> "Caesar Cipher", keyInputType |-> "number"],
     [id |-> "aes", name |-> "AES (Advanced Encryption Standard)",
      keyInputType |-> "substitution"],
     [id |-> "affine", name |-> "Affine Cipher", keyInputType |-> "affine"],
     [id |-> "monoalphabetic", name |-> "Monoalphabetic Substitution",
      keyInputType |-> "substitution"] >>

\* What Array.prototype.find returns when no entry matches.
undefined == [id |-> "undefined", name |-> "", keyInputType |-> ""]

getAlgorithm(id) ==
  IF \E i \in 1..Len(algorithmData) : algorithmData[i].id = id
    THEN algorithmData[CHOOSE i \in 1..Len(algorithmData) :
                         /\ algorithmData[i].id = id
                         /\ \A k \in 1..(i - 1) : algorithmData[k].id # id]
    ELSE undefined

\* algorithm.encrypt(text, key)
encrypt(algorithm, text, key) ==
  CASE algorithm.id = "caesar" -> Ok(caesarEncrypt(text, key))
    [] algorithm.id = "aes" -> aesEncryptText(text, key)
    [] algorithm.id = "affine" -> affineEncrypt(text, key)
    [] algorithm.id = "monoalphabetic" -> monoalphabeticEncrypt(text, key)

\* The AES entry's decrypt: any error of aesDecryptText is caught and a fixed
\* text is returned in its place.
aesRegistryDecrypt(text, key) ==
  orReturn(aesDecryptText(text, key), LAMBDA error : DecryptionFailedText)

\* algorithm.decrypt(text, key)
decrypt(algorithm, text, key) ==
  CASE algorithm.id = "caesar" -> Ok(caesarDecrypt(text, key))
    [] algorithm.id = "aes" -> aesRegistryDecrypt(text, key)
    [] algorithm.id = "affine" -> affineDecrypt(text, key)
    [] algorithm.id = "monoalphabetic" -> monoalphabeticDecrypt(text, key)

\* algorithm.keyValidator(key)
keyValidator(algorithm, key) ==
  CASE algorithm.id = "caesar" -> validateCaesarKey(key)
    [] algorithm.id = "aes" -> validateAesKey(key)
    [] algorithm.id = "affine" -> validateAffineKey(key)
    [] algorithm.id = "monoalphabetic" -> validateMonoalphabeticKey(key)

\* The outcome of the cipher function underneath an operation, before a catch
\* clause of the operation turns an error into a returned text.
underlying(algorithm, mode, text, key) ==
  IF mode = "encrypt" THEN encrypt(algorithm, text, key)
  ELSE IF algorithm.id = "aes" THEN aesDecryptText(text, key)
  ELSE IF algorithm.id = "affine" THEN affineDecryptTry(text, key)
  ELSE decrypt(algorithm, text, key)

(***************************************************************************)
(* Math.random                                                             *)
(***************************************************************************)
\* A value of Math.random() is n / RandomDen for an n in 0 .. RandomDen - 1; a
\* stream gives the values of 25 successive calls.
RandomDen == 2

RandomStreams ==
  { [i \in 1..25 |-> (a * i + b) % RandomDen] : a \in 0..1, b \in 0..(RandomDen - 1) }

\* Math.floor(Math.random() * k) for the random value of numerator n
floorRandom(n, k) == (n * k) \div RandomDen

\* A faulty swap that only copies alphabet[j] to alphabet[i].
swapOverwriting(alphabet, i, j) == [alphabet EXCEPT ![i + 1] = alphabet[j + 1]]

\* [alphabet[i], alphabet[j]] = [alphabet[j], alphabet[i]]
swap(alphabet, i, j) ==
  [alphabet EXCEPT ![i + 1] = alphabet[j + 1], ![j + 1] = alphabet[i + 1]]

\* alphabet after the iterations i = 25, 24, .., down of the Fisher-Yates loop
RECURSIVE shuffleFrom(_, _, _)
shuffleFrom(alphabet, i, rnd) ==
  IF i <= 0 THEN alphabet
  ELSE shuffleFrom(swap(alphabet, i, floorRandom(rnd[26 - i], i + 1)), i - 1, rnd)

generateRandomKey(rnd) == shuffleFrom(ALPHABET, Len(ALPHABET) - 1, rnd)

\* null
null == << >>

getDefaultKey(algorithmId, rnd) ==
  CASE algorithmId = "caesar" -> 3
    [] algorithmId = "affine" -> [a |-> 5, b |-> 8]
    [] algorithmId = "monoalphabetic" -> generateRandomKey(rnd)
    [] algorithmId = "aes" -> AesDefaultKey
    [] OTHER -> null

(***************************************************************************)
(* ProcessVisualization (ProcessVisualization.tsx)                         *)
(*                                                                         *)
(* The component's functions are operators on a world w: the component's   *)
(* state pv, the parent's outputText and isProcessComplete that the        *)
(* callbacks onResult and onProcessComplete set, and the record run of     *)
(* what the current run has done (the operations it has called, the        *)
(* results it has handed to onResult).  p is the props of the render.      *)
(***************************************************************************)
Reverse(s) == [i \in 1..Len(s) |-> s[Len(s) + 1 - i]]

\* A faulty ordering that keeps the list order in both modes.
orderedAlgorithmsUnreversed(mode, algorithmOrder) == algorithmOrder

\* const orderedAlgorithms = mode === 'decrypt' ? [...algorithmOrder].reverse() : algorithmOrder
orderedAlgorithms(mode, algorithmOrder) ==
  IF mode = "decrypt" THEN Reverse(algorithmOrder) ELSE algorithmOrder

StepResult(name) ==
  [algorithm |-> name, input |-> << >>, output |-> << >>, isComplete |-> FALSE,
   characterHighlights |-> << >>]

\* The variables the pending timer callback closes over.
NoProps == [inputText |-> << >>, algorithmOrder |-> << >>, keys |-> << >>, mode |-> "encrypt"]

NoClosure ==
  [p |-> NoProps, stepIndex |-> 0, orderedAlgorithms |-> << >>, input |-> << >>,
   output |-> << >>, currentOutputLength |-> 0]

\* timer is what animationTimeoutRef holds: "none" (null, or a timeout that
\* has fired or was cleared), "char" (animateNextChar in charDelay) or "step"
\* (the next animateAlgorithmStep in completionDelay), and closure is what
\* the callback of that timeout closes over.  orphans are the timeouts that
\* are pending although animationTimeoutRef no longer holds them.  cancelled
\* records that a pending timeout of this component has been cleared.
PvUnmounted ==
  [mounted |-> FALSE, steps |-> << >>, currentAlgorithmIndex |-> 0,
   isProcessing |-> FALSE, finalResult |-> << >>, timer |-> "none",
   closure |-> NoClosure, orphans |-> << >>, cancelled |-> FALSE]

\* animationTimeoutRef.current is overwritten: a pending timeout it held stays
\* pending.
release(w) ==
  IF w.pv.timer = "none" THEN w
  ELSE [w EXCEPT !.pv.orphans = Append(@, [kind |-> w.pv.timer, closure |-> w.pv.closure]),
                 !.pv.timer = "none"]

\* A faulty setTimeout that never runs the callback.
setTimeoutNever(w, kind, c) == release(w)

\* animationTimeoutRef.current = setTimeout(callback, delay)
setTimeout(w, kind, c) == [release(w) EXCEPT !.pv.timer = kind, !.pv.closure = c]

\* A faulty clearTimeout that cancels nothing.
clearTimeoutNoop(w) == w

\* if (animationTimeoutRef.current) clearTimeout(animationTimeoutRef.current)
clearTimeout(w) ==
  [w EXCEPT !.pv.timer = "none", !.pv.cancelled = @ \/ w.pv.timer # "none"]

NewRun == [applied |-> << >>, delivered |-> << >>, lookupFailed |-> FALSE]

\* onResult={setOutputText}
onResult(w, result) ==
  [w EXCEPT !.outputText = result, !.run.delivered = Append(@, result)]

\* onProcessComplete={() => setIsProcessComplete(true)}
onProcessComplete(w) == [w EXCEPT !.isProcessComplete = TRUE]

\* A faulty animation that hands every displayed prefix to onResult.
animateNextCharStreaming(w, c) ==
  LET n == c.currentOutputLength
  IN IF n <= Len(c.output)
       THEN setTimeout(onResult(w, SubSeq(c.output, 1, n)), "char",
                       [c EXCEPT !.currentOutputLength = n + 1])
     ELSE IF c.stepIndex = Len(c.orderedAlgorithms) - 1
       THEN onProcessComplete([w EXCEPT !.pv.isProcessing = FALSE])
     ELSE setTimeout(w, "step", c)

animateNextChar(w, c) ==
  LET n == c.currentOutputLength
      highlights ==
        IF n > 0 /\ n <= Len(c.input)
          THEN << [index |-> n - 1,
                   original |-> << c.input[n] >>,
                   transformed |-> IF n <= Len(c.output) THEN << c.output[n] >> ELSE << >>] >>
          ELSE << >>
  IN IF n <= Len(c.output)
       THEN setTimeout([w EXCEPT !.pv.steps[c.stepIndex + 1] =
                                     [@ EXCEPT !.output = SubSeq(c.output, 1, n),
                                               !.isComplete = (n = Len(c.output)),
                                               !.characterHighlights = highlights]],
                       "char", [c EXCEPT !.currentOutputLength = n + 1])
     ELSE IF c.stepIndex = Len(c.orderedAlgorithms) - 1
       THEN onProcessComplete(
              onResult([w EXCEPT !.pv.finalResult = c.output, !.pv.isProcessing = FALSE],
                       c.output))
     ELSE setTimeout(w, "step", c)

\* p is the props of the render whose functions the callbacks close over.
animateCharacterByCharacter(w, p, stepIndex, input, output, ordered) ==
  animateNextChar(w, [p |-> p, stepIndex |-> stepIndex, orderedAlgorithms |-> ordered,
                      input |-> input, output |-> output, currentOutputLength |-> 0])

\* The rest of animateAlgorithmStep once operation(stepInput, key) has returned
\* or thrown finalOutput (lines 113-155); failed tells whether the cipher
\* function underneath the operation failed.
afterOperation(w, p, stepIndex, ordered, stepInput, key, finalOutput, failed) ==
  LET called == [id |-> ordered[stepIndex + 1].id, mode |-> p.mode, key |-> key,
                 input |-> stepInput, outcome |-> finalOutput, failed |-> failed]
      w1 == [w EXCEPT !.pv.steps[stepIndex + 1] =
                         [@ EXCEPT !.input = stepInput, !.output = << >>,
                                   !.isComplete = FALSE,
                                   !.characterHighlights = << >>],
                      !.pv.currentAlgorithmIndex = stepIndex,
                      !.run.applied = Append(@, called)]
  IN IF finalOutput.ok
       THEN animateCharacterByCharacter(w1, p, stepIndex, stepInput, finalOutput.val, ordered)
     ELSE [w1 EXCEPT !.pv.steps[stepIndex + 1] =
                         [@ EXCEPT !.output = ErrorPrefix \o finalOutput.err,
                                   !.isComplete = TRUE,
                                   !.characterHighlights = << >>],
                     !.pv.isProcessing = FALSE]

\* operation is called once: its outcome is drawn from the one-element set of
\* what the call yields.
animateAlgorithmStep(w, p, stepIndex, ordered, stepInput) ==
  IF stepIndex >= Len(ordered) THEN [w EXCEPT !.pv.isProcessing = FALSE]
  ELSE
    LET currentAlgoId == ordered[stepIndex + 1].id
        algorithm == getAlgorithm(currentAlgoId)
    IN IF algorithm = undefined
         THEN [w EXCEPT !.pv.isProcessing = FALSE, !.run.lookupFailed = TRUE]
       ELSE
         LET key == p.keys[currentAlgoId]
             operation == IF p.mode = "encrypt" THEN encrypt(algorithm, stepInput, key)
                          ELSE decrypt(algorithm, stepInput, key)
         IN CHOOSE after \in
              { afterOperation(w, p, stepIndex, ordered, stepInput, key, finalOutput, failed) :
                  finalOutput \in { operation },
                  failed \in { ~underlying(algorithm, p.mode, stepInput, key).ok } } : TRUE

processText(w, p) ==
  IF p.inputText = << >> \/ Len(p.algorithmOrder) = 0 THEN w
  ELSE
    LET ordered == orderedAlgorithms(p.mode, p.algorithmOrder)
        initialSteps == [i \in 1..Len(ordered) |-> StepResult(ordered[i].name)]
    IN animateAlgorithmStep([w EXCEPT !.pv.isProcessing = TRUE, !.pv.steps = initialSteps],
                            p, 0, ordered, p.inputText)

\* The effect on [inputText, algorithmOrder, keys, mode]; a new run begins.
useEffect(w, p) ==
  LET reset == [release(clearTimeout(w)) EXCEPT
                         !.pv.steps = << >>,
                         !.pv.currentAlgorithmIndex = 0, !.pv.isProcessing = FALSE,
                         !.pv.finalResult = << >>, !.run = NewRun]
  IN IF p.inputText # << >> /\ Len(p.algorithmOrder) > 0 THEN processText(reset, p)
     ELSE onResult(reset, << >>)

\* App renders the component only when there is text and an algorithm.
isRendered(p) == p.inputText # << >> /\ Len(p.algorithmOrder) > 0

\* The effect's cleanup (lines 60-64).
cleanup(w) == clearTimeout(w)

\* A render of App with props p.  Unmounting runs the effect's cleanup and
\* drops the component's state, but not the timeouts that are still pending;
\* mounting runs the effect; a mounted component runs cleanup and effect when
\* a dependency has changed.
render(w, p, depsChanged) ==
  IF ~isRendered(p)
    THEN [w EXCEPT !.pv = [PvUnmounted EXCEPT !.orphans = release(cleanup(w)).pv.orphans],
                   !.run = NewRun]
  ELSE IF ~w.pv.mounted
    THEN useEffect([w EXCEPT !.pv = [PvUnmounted EXCEPT !.mounted = TRUE,
                                                       !.orphans = w.pv.orphans]], p)
  ELSE IF depsChanged THEN useEffect(cleanup(w), p)
  ELSE w


(***************************************************************************)
(* CryptoAnalysis (CryptoAnalysis.tsx)                                     *)
(*                                                                         *)
(* The component's state is the record ca, together with showAnalysis of   *)
(* App and the requests to performCryptanalysis that have not been         *)
(* answered yet.  app is the state the component reads from the context    *)
(* and from its props.  An analysis text is represented by the request it  *)
(* answers.                                                                *)
(***************************************************************************)
NoRequest == [pipeline |-> << >>, inputText |-> << >>, outputText |-> << >>, mode |-> "none"]

NoConfig == [set |-> FALSE, config |-> << >>]

\* The component after its construction; newest is the request issued last.
CryptoAnalysisNew ==
  [showAnalysis |-> FALSE, analysis |-> NoRequest, isLoading |-> FALSE, error |-> "null",
   lastConfig |-> NoConfig, hasRunAnalysis |-> FALSE, requests |-> << >>,
   newest |-> NoRequest]

\* currentConfig of the first effect
currentConfig(app) ==
  [inputText |-> app.inputText, outputText |-> app.outputText,
   algorithmIds |-> [i \in 1..Len(app.algorithmOrder) |-> app.algorithmOrder[i].id],
   keys |-> app.keys, mode |-> app.mode]

\* The arguments of performCryptanalysis in runAnalysis.
requestOf(app) ==
  [pipeline |-> [i \in 1..Len(app.algorithmOrder) |->
                   [id |-> app.algorithmOrder[i].id, name |-> app.algorithmOrder[i].name,
                    key |-> app.keys[app.algorithmOrder[i].id]]],
   inputText |-> app.inputText, outputText |-> app.outputText, mode |-> app.mode]

\* The first effect: a configuration that differs from the last one resets
\* hasRunAnalysis.
configEffect(c, app) ==
  [c EXCEPT !.hasRunAnalysis =
               IF c.lastConfig.set /\ currentConfig(app) # c.lastConfig.config THEN FALSE ELSE @,
            !.lastConfig = [set |-> TRUE, config |-> currentConfig(app)]]

\* The condition of runAnalysis but for hasRunAnalysis.
canRunAnalysis(c, app) ==
  c.showAnalysis /\ app.isProcessComplete /\ app.outputText # << >>
    /\ Len(app.algorithmOrder) > 0

\* runAnalysis up to its await: the request is sent.
runAnalysis(c, app) ==
  [c EXCEPT !.isLoading = TRUE, !.error = "null",
            !.requests = Append(@, requestOf(app)), !.newest = requestOf(app)]

\* The effects of the renders that follow a change: both effects run in the
\* render of the change, the second one with the hasRunAnalysis of that
\* render and only if one of its dependencies has changed; the second one
\* runs again in the render that a reset of hasRunAnalysis causes.
analysisEffects(c, app, depsChanged) ==
  IF canRunAnalysis(c, app)
       /\ \/ depsChanged /\ ~c.hasRunAnalysis
          \/ c.hasRunAnalysis /\ ~configEffect(c, app).hasRunAnalysis
    THEN runAnalysis(configEffect(c, app), app)
    ELSE configEffect(c, app)
(***************************************************************************)
(* State                                                                   *)
(***************************************************************************)
VARIABLES
  inputText,          \* CryptoContext: the text to process
  outputText,         \* CryptoContext: the result onResult delivered
  algorithmOrder,     \* CryptoContext: the selected algorithms, [id, name] each
  keys,               \* CryptoContext: the key of each algorithm id
  mode,               \* CryptoContext: "encrypt" or "decrypt"
  isProcessComplete,  \* App: set by onProcessComplete
  pv,                 \* ProcessVisualization: its state, timer and timer closure
  run,                \* what the current run has called and delivered
  roundTrip,          \* the text whose encryption the current run decrypts, if any
  refreshed,          \* the ids whose key handleGenerateRandomKey produced
  edits,              \* the number of user actions so far
  ca,                 \* CryptoAnalysis: its state and its unanswered requests
  call                \* a function called on drawn arguments, and its results

vars == << inputText, outputText, algorithmOrder, keys, mode, isProcessComplete, pv, run,
           roundTrip, refreshed, edits, ca, call >>

appVars == << inputText, outputText, algorithmOrder, keys, mode, isProcessComplete, pv, run,
              roundTrip, refreshed, edits, ca >>

MaxEdits == 3

World ==
  [pv |-> pv, outputText |-> outputText, isProcessComplete |-> isProcessComplete,
   run |-> run]

Props ==
  [inputText |-> inputText, algorithmOrder |-> algorithmOrder, keys |-> keys, mode |-> mode]

Becomes(w) ==
  /\ pv' = w.pv
  /\ outputText' = w.outputText
  /\ isProcessComplete' = w.isProcessComplete
  /\ run' = w.run

\* What CryptoAnalysis reads from the context and from its props.
AppState ==
  [inputText |-> inputText, outputText |-> outputText, algorithmOrder |-> algorithmOrder,
   keys |-> keys, mode |-> mode, isProcessComplete |-> isProcessComplete]

\* CryptoAnalysis is rendered with the state an action of App has produced.
AnalysisRenders ==
  ca' = analysisEffects(ca, AppState', AppState' # AppState)

NoRoundTrip == [armed |-> FALSE, original |-> << >>]

NoCall == [fn |-> "none", phase |-> "idle", args |-> << >>, mid |-> << >>, result |-> << >>]

\* "Hi"
TextHi == << 72, 105 >>

\* U+FEFF followed by "A"
TextBomA == << 65279, 65 >>

\* "0123456789abcdef", a key of 16 bytes
Key16 == << 48, 49, 50, 51, 52, 53, 54, 55, 56, 57, 97, 98, 99, 100, 101, 102 >>

\* "ABC", no substitution key
KeyABC == << 65, 66, 67 >>

ZeroStream == [i \in 1..25 |-> 0]

(***************************************************************************)
(* CryptoContext and App                                                   *)
(***************************************************************************)
defaultKeys(rnd) ==
  [caesar |-> getDefaultKey("caesar", rnd),
   affine |-> getDefaultKey("affine", rnd),
   monoalphabetic |-> getDefaultKey("monoalphabetic", rnd),
   aes |-> getDefaultKey("aes", rnd)]

\* The state CryptoProvider and App construct; the component is not rendered.
Init ==
  /\ inputText = << >>
  /\ outputText = << >>
  /\ algorithmOrder = << >>
  /\ \E rnd \in RandomStreams : keys = defaultKeys(rnd)
  /\ mode = "encrypt"
  /\ isProcessComplete = FALSE
  /\ pv = PvUnmounted
  /\ run = NewRun
  /\ roundTrip = NoRoundTrip
  /\ refreshed = {}
  /\ edits = 0
  /\ ca = configEffect(CryptoAnalysisNew, AppState)
  /\ call = NoCall

\* A timeout of the component fires.
\* The timeouts that are pending: the one animationTimeoutRef holds and the
\* ones it no longer holds.
PendingTimers ==
  { [held |-> TRUE, at |-> 0, kind |-> pv.timer, closure |-> pv.closure] : k \in { pv.timer } \ {"none"} }
    \cup { [held |-> FALSE, at |-> i, kind |-> pv.orphans[i].kind,
            closure |-> pv.orphans[i].closure] : i \in 1..Len(pv.orphans) }

Without(s, i) == SubSeq(s, 1, i - 1) \o SubSeq(s, i + 1, Len(s))

\* The callback of a timeout: animateNextChar, or the arrow function of lines
\* 217-219.
callback(w, kind, c) ==
  IF kind = "char" THEN animateNextChar(w, c)
  ELSE animateAlgorithmStep(w, c.p, c.stepIndex + 1, c.orderedAlgorithms, c.output)

\* A timeout of the component fires.
TimerFire ==
  /\ \E t \in PendingTimers :
       \E w \in { callback(IF t.held THEN [World EXCEPT !.pv.timer = "none"]
                            ELSE [World EXCEPT !.pv.orphans = Without(@, t.at)],
                            t.kind, t.closure) } : Becomes(w)
  /\ UNCHANGED << inputText, algorithmOrder, keys, mode, roundTrip, refreshed, edits, call >>
  /\ AnalysisRenders

\* A faulty toggle that keeps the output text.
handleToggleModeKeepingOutput ==
  /\ edits < MaxEdits
  /\ mode' = IF mode = "encrypt" THEN "decrypt" ELSE "encrypt"
  /\ inputText' = outputText
  /\ \E w \in { render([World EXCEPT !.isProcessComplete = FALSE],
                         [Props EXCEPT !.mode = mode', !.inputText = outputText],
                         TRUE) } : Becomes(w)
  /\ roundTrip' = NoRoundTrip
  /\ edits' = edits + 1
  /\ UNCHANGED << algorithmOrder, keys, refreshed, call >>
  /\ AnalysisRenders

\* toggleMode of CryptoContext within handleToggleMode of App
handleToggleMode ==
  /\ edits < MaxEdits
  /\ mode' = IF mode = "encrypt" THEN "decrypt" ELSE "encrypt"
  /\ inputText' = outputText
  /\ \E w \in { render([World EXCEPT !.outputText = << >>, !.isProcessComplete = FALSE],
                         [Props EXCEPT !.mode = mode', !.inputText = outputText],
                         TRUE) } : Becomes(w)
  /\ roundTrip' = IF mode = "encrypt" /\ pv.mounted /\ run.delivered # << >>
                    THEN [armed |-> TRUE, original |-> inputText]
                    ELSE NoRoundTrip
  /\ edits' = edits + 1
  /\ UNCHANGED << algorithmOrder, keys, refreshed, call >>
  /\ AnalysisRenders

\* resetAll of CryptoContext within handleResetAll of App
handleResetAll ==
  /\ edits < MaxEdits
  /\ inputText' = << >>
  /\ mode' = "encrypt"
  /\ \E w \in { render([World EXCEPT !.outputText = << >>, !.isProcessComplete = FALSE],
                         [Props EXCEPT !.mode = "encrypt", !.inputText = << >>],
                         inputText # << >> \/ mode # "encrypt") } : Becomes(w)
  /\ roundTrip' = NoRoundTrip
  /\ edits' = edits + 1
  /\ UNCHANGED << algorithmOrder, keys, refreshed, call >>
  /\ AnalysisRenders

AppTexts == { << >>, TextHi, TextBomA }

handleInputChange(text) ==
  /\ edits < MaxEdits
  /\ inputText' = text
  /\ \E w \in { render([World EXCEPT !.isProcessComplete = FALSE],
                         [Props EXCEPT !.inputText = text], text # inputText) } :
       Becomes(w)
  /\ roundTrip' = NoRoundTrip
  /\ edits' = edits + 1
  /\ UNCHANGED << algorithmOrder, keys, mode, refreshed, call >>
  /\ AnalysisRenders

\* onOrderChange of App: a new array, so the effect's dependency has changed.
onOrderChange(newOrder) ==
  /\ algorithmOrder' = newOrder
  /\ \E w \in { render([World EXCEPT !.isProcessComplete = FALSE],
                         [Props EXCEPT !.algorithmOrder = newOrder], TRUE) } :
       Becomes(w)
  /\ roundTrip' = NoRoundTrip
  /\ edits' = edits + 1
  /\ UNCHANGED << inputText, keys, mode, refreshed, call >>
  /\ AnalysisRenders

\* A faulty add that does not look for the algorithm in the list.
handleAddAlgorithmAgain(algo) ==
  /\ edits < MaxEdits
  /\ onOrderChange(Append(algorithmOrder, [id |-> algo.id, name |-> algo.name]))

\* The button of an algorithm that is not selected yet.
handleAddAlgorithm(algo) ==
  /\ edits < MaxEdits
  /\ ~\E i \in 1..Len(algorithmOrder) : algorithmOrder[i].id = algo.id
  /\ onOrderChange(Append(algorithmOrder, [id |-> algo.id, name |-> algo.name]))

handleRemoveAlgorithm(id) ==
  /\ edits < MaxEdits
  /\ \E i \in 1..Len(algorithmOrder) : algorithmOrder[i].id = id
  /\ onOrderChange(SelectSeq(algorithmOrder, LAMBDA item : item.id # id))

\* arrayMove(array, from, to) with 0-based from and to
arrayMove(array, from, to) ==
  LET without == SubSeq(array, 1, from) \o SubSeq(array, from + 2, Len(array))
  IN SubSeq(without, 1, to) \o << array[from + 1] >> \o SubSeq(without, to + 1, Len(without))

\* An item dragged from oldIndex is dropped on the item at newIndex.
handleDragEnd(oldIndex, newIndex) ==
  /\ edits < MaxEdits
  /\ oldIndex # newIndex
  /\ onOrderChange(arrayMove(algorithmOrder, oldIndex, newIndex))

\* updateKey of CryptoContext within the onChange of a KeyInput: a new keys
\* object, so the effect's dependency has changed.
onChange(algorithmId, newKey) ==
  /\ keys' = [keys EXCEPT ![algorithmId] = newKey]
  /\ \E w \in { render([World EXCEPT !.isProcessComplete = FALSE],
                         [Props EXCEPT !.keys = keys'], TRUE) } : Becomes(w)
  /\ roundTrip' = NoRoundTrip
  /\ edits' = edits + 1
  /\ UNCHANGED << inputText, algorithmOrder, mode, call >>
  /\ AnalysisRenders

\* The keys a user types into the input of an algorithm.
TypedKeys(algorithm) ==
  CASE algorithm.keyInputType = "number" -> { 7, 30 }
    [] algorithm.keyInputType = "affine" ->
         { [keys.affine EXCEPT !.a = 2], [keys.affine EXCEPT !.b = 3] }
    [] algorithm.id = "aes" -> { Key16 }
    [] OTHER -> { KeyABC }

\* A KeyInput is rendered for each selected algorithm.
keyInputChange(i, newKey) ==
  /\ edits < MaxEdits
  /\ refreshed' = refreshed \ { algorithmOrder[i].id }
  /\ onChange(algorithmOrder[i].id, newKey)

handleGenerateRandomKey(i, rnd) ==
  LET algorithm == getAlgorithm(algorithmOrder[i].id)
      validA == << 1, 3, 5, 7, 9, 11, 15, 17, 19, 21, 23, 25 >>
      newKey ==
        CASE algorithm.keyInputType = "number" -> floorRandom(rnd[1], 26)
          [] algorithm.keyInputType = "affine" ->
               [a |-> At(validA, floorRandom(rnd[1], Len(validA))),
                b |-> floorRandom(rnd[2], 26)]
          [] algorithm.keyInputType = "substitution" -> generateRandomKey(rnd)
          [] OTHER -> getDefaultKey(algorithm.id, rnd)
  IN /\ edits < MaxEdits
     /\ refreshed' = refreshed \cup { algorithm.id }
     /\ onChange(algorithm.id, newKey)

Next ==
  \/ TimerFire
  \/ handleToggleMode
  \/ handleResetAll
  \/ \E text \in AppTexts : handleInputChange(text)
  \/ \E i \in 1..Len(algorithmData) : handleAddAlgorithm(algorithmData[i])
  \/ \E i \in 1..Len(algorithmOrder) : handleRemoveAlgorithm(algorithmOrder[i].id)
  \/ \E i, k \in 1..Len(algorithmOrder) : handleDragEnd(i - 1, k - 1)
  \/ \E i \in 1..Len(algorithmOrder) :
       \E newKey \in TypedKeys(getAlgorithm(algorithmOrder[i].id)) : keyInputChange(i, newKey)
  \/ \E i \in 1..Len(algorithmOrder), rnd \in RandomStreams : handleGenerateRandomKey(i, rnd)

Spec == Init /\ [][Next]_vars

(***************************************************************************)
(* A pipeline run on drawn props                                           *)
(*                                                                         *)
(* The component is mounted with a text, a step list, keys and a mode      *)
(* drawn from the sets below, its parent being App: onResult sets          *)
(* outputText, and toggling the mode hands the output back as the input.   *)
(***************************************************************************)
MaxSteps == 2

MaxToggles == 1

\* The registered ids and "vigenere", which is not registered.
RunItems ==
  { [id |-> algorithmData[i].id, name |-> algorithmData[i].name] :
      i \in 1..Len(algorithmData) }
    \cup { [id |-> "vigenere", name |-> "Vigenere Cipher"] }

\* The step lists of 1 .. MaxSteps different items.
RunOrders ==
  UNION { { order \in [1..n -> RunItems] :
              \A i, k \in 1..n : i # k => order[i] # order[k] } : n \in 1..MaxSteps }

\* Keys that the validators accept, and keys that they reject.
AcceptedKeys ==
  [caesar |-> 3, affine |-> [a |-> 5, b |-> 8],
   monoalphabetic |-> generateRandomKey(ZeroStream), aes |-> Key16]

RejectedKeys ==
  [caesar |-> 30, affine |-> [a |-> 2, b |-> 8], monoalphabetic |-> KeyABC,
   aes |-> AesDefaultKey]

RunKeys == { AcceptedKeys, RejectedKeys }

RunTexts == { TextHi, TextBomA }

\* The component has mounted and its effect has run.
InitRun ==
  \E text \in RunTexts, order \in RunOrders, ks \in RunKeys, m \in {"encrypt", "decrypt"} :
    /\ inputText = text
    /\ algorithmOrder = order
    /\ keys = ks
    /\ mode = m
    /\ \E w \in { render([pv |-> PvUnmounted, outputText |-> << >>,
                            isProcessComplete |-> FALSE, run |-> NewRun],
                           [inputText |-> text, algorithmOrder |-> order, keys |-> ks,
                            mode |-> m], TRUE) } :
          /\ pv = w.pv
          /\ outputText = w.outputText
          /\ isProcessComplete = w.isProcessComplete
          /\ run = w.run
    /\ roundTrip = NoRoundTrip
    /\ refreshed = {}
    /\ edits = 0
    /\ ca = configEffect(CryptoAnalysisNew, AppState)
    /\ call = NoCall

\* The parent toggles the mode at most MaxToggles times.
NextRun == TimerFire \/ (edits < MaxToggles /\ handleToggleMode)

SpecRun == InitRun /\ [][NextRun]_vars

(***************************************************************************)
(* Properties of a pipeline run                                            *)
(***************************************************************************)
IsRegistered(id) == \E i \in 1..Len(algorithmData) : algorithmData[i].id = id

\* Every step's algorithm is registered and every step's key passes the
\* validator of its algorithm.
AllKeysAccepted ==
  \A i \in 1..Len(algorithmOrder) :
    /\ IsRegistered(algorithmOrder[i].id)
    /\ keyValidator(getAlgorithm(algorithmOrder[i].id), keys[algorithmOrder[i].id])

\* The k-th step of the run in the order the claim gives: the list order for
\* encrypt, its exact reverse for decrypt.
StepOfRun(k) ==
  IF mode = "encrypt" THEN algorithmOrder[k]
  ELSE algorithmOrder[Len(algorithmOrder) + 1 - k]

\* C1: a run in mode encrypt calls the steps' encrypt operations in list order
\* and a run in mode decrypt the steps' decrypt operations in the exact
\* reverse order; each call uses the key bound to the step's own id, its
\* input is the previous call's complete output (the input text for the
\* first), and the delivered result is the last called step's output.
C1_OrderKeysChaining ==
  /\ Len(run.applied) <= Len(algorithmOrder)
  /\ \A k \in 1..Len(run.applied) :
       /\ run.applied[k].id = StepOfRun(k).id
       /\ run.applied[k].mode = mode
       /\ run.applied[k].key = keys[run.applied[k].id]
       /\ run.applied[k].input =
            IF k = 1 THEN inputText ELSE run.applied[k - 1].outcome.val
       /\ k > 1 => run.applied[k - 1].outcome.ok
  /\ run.delivered # << >> =>
       /\ Len(run.applied) = Len(algorithmOrder)
       /\ run.delivered = << run.applied[Len(run.applied)].outcome.val >>
       /\ outputText = run.applied[Len(run.applied)].outcome.val
       /\ pv.finalResult = outputText

\* A decrypt run of two different steps has called both and delivered.
C1_Witness ==
  /\ mode = "decrypt"
  /\ Len(algorithmOrder) = 2
  /\ Len(run.applied) = 2
  /\ run.applied[1].id = algorithmOrder[2].id
  /\ run.applied[2].id = algorithmOrder[1].id
  /\ run.applied[2].input = run.applied[1].outcome.val
  /\ run.applied[2].input # inputText
  /\ run.delivered # << >>

\* C2: for every step list of registered algorithms whose keys the validators
\* all accept and every input text, the encrypt run's result, run through the
\* same step list and keys in mode decrypt, yields the original text.
C2_PipelineRoundTrip ==
  (roundTrip.armed /\ mode = "decrypt" /\ AllKeysAccepted /\ run.delivered # << >>)
    => outputText = roundTrip.original

\* C3: when a step of a run fails, the run aborts at that step: no later
\* step's transform is called and no result is delivered.
C3_AbortOnFirstFailure ==
  \A k \in 1..Len(run.applied) :
    run.applied[k].failed => (k = Len(run.applied) /\ run.delivered = << >>)

\* C4: no step's encrypt or decrypt function is called unless the key of
\* every step of the pipeline has passed its algorithm's validator.
C4_KeysValidatedUpFront ==
  (run.applied # << >> /\ \A i \in 1..Len(algorithmOrder) : IsRegistered(algorithmOrder[i].id))
    => AllKeysAccepted

\* C5: with an id that is not registered anywhere in the step list, the run
\* ends with a lookup failure before any step's transform is called, and no
\* partial or final output is produced.
C5_UnknownIdBeforeAnyTransform ==
  (pv.mounted /\ \E i \in 1..Len(algorithmOrder) : ~IsRegistered(algorithmOrder[i].id))
    => /\ run.applied = << >>
       /\ run.delivered = << >>
       /\ \A i \in 1..Len(pv.steps) : pv.steps[i].output = << >>

\* C9: for each registered algorithm and every random draw, the key that
\* handleGenerateRandomKey hands to onChange passes that algorithm's validator.
C9_RandomKeysAccepted ==
  \A id \in refreshed : keyValidator(getAlgorithm(id), keys[id])

(***************************************************************************)
(* The cipher functions called on drawn arguments                          *)
(***************************************************************************)
MaxPlainLen == 17

\* Keys of the three accepted sizes, two byte patterns each.
KeyOf(n, fill) == [i \in 1..n |-> (fill * i + 7 * fill) % 256]

AesKeys == { KeyOf(n, fill) : n \in {16, 24, 32}, fill \in {0, 29} }

PlainOf(n) == [i \in 1..n |-> (37 * i + 11) % 256]

AesPlaintexts == { PlainOf(n) : n \in 0..MaxPlainLen }

\* "A z!"
TextAz == << 65, 32, 122, 33 >>

\* Key16 followed by "01234567", a key of 24 bytes
Key24 == Key16 \o << 48, 49, 50, 51, 52, 53, 54, 55 >>

\* Ciphertexts handed to the AES entry's decrypt: the encryption of "Hi", the
\* same with its last block replaced by zeros ("00" x 16), "abc" (odd length),
\* "00ff" (two bytes) and "Hi" (no hex digits).
HexOfHi == aesEncryptText(TextHi, Key16).val

ZeroBlockHex == [i \in 1..32 |-> 48]

RegistryCiphertexts ==
  { HexOfHi, ZeroBlockHex, << 97, 98, 99 >>, << 48, 48, 102, 102 >>, TextHi }

RegistryKeys == { Key16, Key24, AesDefaultKey }

AffineKeys == { [a |-> a, b |-> b] : a \in 0..26, b \in {0, 8} }

\* "vigenere", an id that is not registered
CallIds == { "caesar", "aes", "affine", "monoalphabetic", "vigenere" }

AppIdle ==
  /\ inputText = << >>
  /\ outputText = << >>
  /\ algorithmOrder = << >>
  /\ keys = defaultKeys(ZeroStream)
  /\ mode = "encrypt"
  /\ isProcessComplete = FALSE
  /\ pv = PvUnmounted
  /\ run = NewRun
  /\ roundTrip = NoRoundTrip
  /\ refreshed = {}
  /\ edits = 0
  /\ ca = configEffect(CryptoAnalysisNew, AppState)

DrawnCall ==
  \/ \E k \in AesKeys, x \in AesPlaintexts :
       call = [NoCall EXCEPT !.fn = "aesEncrypt", !.phase = "drawn",
                             !.args = [key |-> k, plaintext |-> x]]
  \/ \E t \in RegistryCiphertexts, k \in RegistryKeys :
       call = [NoCall EXCEPT !.fn = "aes.decrypt", !.phase = "drawn",
                             !.args = [text |-> t, key |-> k]]
  \/ \E t \in {TextHi, TextAz}, k \in AffineKeys :
       call = [NoCall EXCEPT !.fn = "affineDecrypt", !.phase = "drawn",
                             !.args = [text |-> t, key |-> k]]
  \/ \E id \in CallIds, rnd \in RandomStreams :
       call = [NoCall EXCEPT !.fn = "getDefaultKey", !.phase = "drawn",
                             !.args = [algorithmId |-> id, rnd |-> rnd]]

InitCalls == AppIdle /\ DrawnCall

\* aesEncrypt(plaintext, key)
CallAesEncrypt ==
  /\ call.fn = "aesEncrypt" /\ call.phase = "drawn"
  /\ call' = [call EXCEPT !.phase = "encrypted",
                          !.mid = aesEncrypt(call.args.plaintext, call.args.key)]
  /\ UNCHANGED appVars

\* aesDecrypt(ciphertext, key) on the ciphertext aesEncrypt returned
CallAesDecrypt ==
  /\ call.fn = "aesEncrypt" /\ call.phase = "encrypted"
  /\ call.mid.ok
  /\ call' = [call EXCEPT !.phase = "done",
                          !.result = aesDecrypt(call.mid.val, call.args.key)]
  /\ UNCHANGED appVars

\* getAlgorithm('aes').decrypt(text, key); mid keeps what aesDecryptText did.
CallAesRegistryDecrypt ==
  /\ call.fn = "aes.decrypt" /\ call.phase = "drawn"
  /\ call' = [call EXCEPT !.phase = "done",
                          !.mid = aesDecryptText(call.args.text, call.args.key),
                          !.result = aesRegistryDecrypt(call.args.text, call.args.key)]
  /\ UNCHANGED appVars

\* affineDecrypt(text, key)
CallAffineDecrypt ==
  /\ call.fn = "affineDecrypt" /\ call.phase = "drawn"
  /\ call' = [call EXCEPT !.phase = "done",
                          !.mid = affineDecryptTry(call.args.text, call.args.key),
                          !.result = affineDecrypt(call.args.text, call.args.key)]
  /\ UNCHANGED appVars

\* getDefaultKey(algorithmId)
CallGetDefaultKey ==
  /\ call.fn = "getDefaultKey" /\ call.phase = "drawn"
  /\ call' = [call EXCEPT !.phase = "done",
                          !.result = getDefaultKey(call.args.algorithmId, call.args.rnd)]
  /\ UNCHANGED appVars

NextCalls ==
  \/ CallAesEncrypt
  \/ CallAesDecrypt
  \/ CallAesRegistryDecrypt
  \/ CallAffineDecrypt
  \/ CallGetDefaultKey

SpecCalls == InitCalls /\ [][NextCalls]_vars

(***************************************************************************)
(* Properties of the cipher functions                                      *)
(***************************************************************************)
\* C6: the registry's AES decrypt reports every failure of the decryption
\* (key not of 16/24/32 bytes, odd-length hex, ciphertext length no multiple
\* of 16, invalid padding) as an error outcome, never as a returned text.
C6_AesDecryptFailsExplicitly ==
  (call.fn = "aes.decrypt" /\ call.phase = "done" /\ ~call.mid.ok) => ~call.result.ok

\* C7: affineDecrypt with a key whose a is not coprime with 26 yields an error
\* outcome for every text, never a string returned as the decrypted text.
C7_AffineDecryptFailsExplicitly ==
  (call.fn = "affineDecrypt" /\ call.phase = "done" /\ gcd(call.args.key.a, 26) # 1)
    => ~call.result.ok

\* C8: for each registered algorithm the key getDefaultKey returns is accepted
\* by the algorithm's validator; the AES default is 16 bytes long, Caesar's is
\* 3 and Affine's is (5, 8).
C8_DefaultKeysValid ==
  (call.fn = "getDefaultKey" /\ call.phase = "done"
     /\ getAlgorithm(call.args.algorithmId) # undefined) =>
    /\ keyValidator(getAlgorithm(call.args.algorithmId), call.result)
    /\ call.args.algorithmId = "aes" => Len(stringToUint8Array(call.result)) = 16
    /\ call.args.algorithmId = "caesar" => call.result = 3
    /\ call.args.algorithmId = "affine" => call.result = [a |-> 5, b |-> 8]

\* C10: for every key of 16, 24 or 32 bytes and every byte sequence x, the
\* empty one and the lengths that are no multiple of 16 included,
\* aesDecrypt(aesEncrypt(x, k), k) succeeds and equals x.
C10_AesRoundTrip ==
  /\ (call.fn = "aesEncrypt" /\ call.phase = "encrypted") =>
       /\ call.mid.ok
       /\ Len(call.mid.val) = 16 * ((Len(call.args.plaintext) \div 16) + 1)
  /\ (call.fn = "aesEncrypt" /\ call.phase = "done") =>
       /\ call.result.ok
       /\ call.result.val = call.args.plaintext

\* A two-block round trip of a 17-byte sequence under a 32-byte key.
C10_Witness ==
  /\ call.fn = "aesEncrypt" /\ call.phase = "done"
  /\ Len(call.args.key) = 32
  /\ Len(call.args.plaintext) = 17
  /\ Len(call.mid.val) = 32
  /\ call.result.val = call.args.plaintext

(***************************************************************************)
(* The parts of the ciphers called on drawn arguments                      *)
(***************************************************************************)
MaxPadLen == 33

MaxPadByte == 18

MaxKeyLen == 33

\* Block-aligned data of n bytes: last in the final byte, fill before it.
PaddedOf(n, fill, last) == [i \in 1..n |-> IF i = n THEN last ELSE fill]

PaddedInputs ==
  { PaddedOf(n, fill, last) :
      n \in {16, 32}, fill \in {0, 2, 16}, last \in (0..MaxPadByte) \cup {255} }

\* The ciphertext whose blocks decrypt to the blocks of data.
encryptBlocks(data, key) == blocksFrom(aesEncryptBlock, data, key, 0).val

\* Data to pad: a byte pattern, and bytes that look like padding themselves.
PadInputs ==
  { PlainOf(n) : n \in 0..MaxPadLen } \cup { [i \in 1..n |-> 16] : n \in {15, 16, 32} }

\* Keys of every length up to MaxKeyLen, the three accepted ones included.
KeyLengthKeys == { KeyOf(n, 29) : n \in 0..MaxKeyLen }

\* Plaintexts and ciphertexts handed over with them: empty, 5, 16 and 32 bytes.
KeyLengthInputs == { PlainOf(n) : n \in {0, 5, 16, 32} }

DrawnPadding ==
  \/ \E d \in PaddedInputs :
       call = [NoCall EXCEPT !.fn = "unpadPKCS7", !.phase = "drawn",
                             !.args = [data |-> d, key |-> KeyOf(16, 29),
                                       ciphertext |-> encryptBlocks(d, KeyOf(16, 29))]]
  \/ \E d \in PadInputs :
       call = [NoCall EXCEPT !.fn = "padPKCS7", !.phase = "drawn", !.args = [data |-> d]]
  \/ \E k \in KeyLengthKeys, d \in KeyLengthInputs :
       call = [NoCall EXCEPT !.fn = "keyLength", !.phase = "drawn",
                             !.args = [key |-> k, data |-> d]]

\* unpadPKCS7(data)
CallUnpadPKCS7 ==
  /\ call.fn = "unpadPKCS7" /\ call.phase = "drawn"
  /\ call' = [call EXCEPT !.phase = "unpadded", !.mid = unpadPKCS7(call.args.data)]
  /\ UNCHANGED appVars

\* aesDecrypt(ciphertext, key) on the ciphertext of the same data
CallAesDecryptPadded ==
  /\ call.fn = "unpadPKCS7" /\ call.phase = "unpadded"
  /\ call' = [call EXCEPT !.phase = "done",
                          !.result = aesDecrypt(call.args.ciphertext, call.args.key)]
  /\ UNCHANGED appVars

\* padPKCS7(data)
CallPadPKCS7 ==
  /\ call.fn = "padPKCS7" /\ call.phase = "drawn"
  /\ call' = [call EXCEPT !.phase = "padded", !.mid = padPKCS7(call.args.data)]
  /\ UNCHANGED appVars

\* unpadPKCS7 on what padPKCS7 returned
CallUnpadPadded ==
  /\ call.fn = "padPKCS7" /\ call.phase = "padded"
  /\ call' = [call EXCEPT !.phase = "done", !.result = unpadPKCS7(call.mid)]
  /\ UNCHANGED appVars

\* aesEncrypt(data, key) with a key of any length
CallAesEncryptWithKey ==
  /\ call.fn = "keyLength" /\ call.phase = "drawn"
  /\ call' = [call EXCEPT !.phase = "encrypted",
                          !.mid = aesEncrypt(call.args.data, call.args.key)]
  /\ UNCHANGED appVars

\* aesDecrypt(data, key) with the same key
CallAesDecryptWithKey ==
  /\ call.fn = "keyLength" /\ call.phase = "encrypted"
  /\ call' = [call EXCEPT !.phase = "done",
                          !.result = aesDecrypt(call.args.data, call.args.key)]
  /\ UNCHANGED appVars

\* Blocks and keys handed to aesEncryptBlock: the all-zero block and a byte
\* pattern, under the keys of AesKeys (KeyOf(16, 0) is the all-zero key).
ZeroBlock == [i \in 1..16 |-> 0]

BlockInputs == { ZeroBlock, PlainOf(16) }

\* Hex strings: "", "00ff", "0aF", "zz", "0g", "g0", "0 0", " a b c", "0x41",
\* "-1" and "+f".
HexInputs ==
  { << >>, << 48, 48, 102, 102 >>, << 48, 97, 70 >>, << 122, 122 >>, << 48, 103 >>,
    << 103, 48 >>, << 48, 32, 48 >>, << 32, 97, 32, 98, 32, 99 >>,
    << 48, 120, 52, 49 >>, << 45, 49 >>, << 43, 102 >> }

DrawnAesParts ==
  \/ \E x \in BlockInputs, k \in AesKeys :
       call = [NoCall EXCEPT !.fn = "aesEncryptBlock", !.phase = "drawn",
                             !.args = [plaintext |-> x, key |-> k]]
  \/ \E h \in HexInputs :
       call = [NoCall EXCEPT !.fn = "hexToUint8Array", !.phase = "drawn",
                             !.args = [hexStr |-> h]]

\* aesEncryptBlock(plaintext, key)
CallAesEncryptBlock ==
  /\ call.fn = "aesEncryptBlock" /\ call.phase = "drawn"
  /\ call' = [call EXCEPT !.phase = "done",
                          !.result = aesEncryptBlock(call.args.plaintext, call.args.key)]
  /\ UNCHANGED appVars

\* hexToUint8Array(hexStr)
CallHexToUint8Array ==
  /\ call.fn = "hexToUint8Array" /\ call.phase = "drawn"
  /\ call' = [call EXCEPT !.phase = "done", !.result = hexToUint8Array(call.args.hexStr)]
  /\ UNCHANGED appVars

MaxShift == 53

MaxKeyNum == 27

\* "A" .. "Z" and "a" .. "z"
UpperLetters == [i \in 1..26 |-> 64 + i]

LowerLetters == [i \in 1..26 |-> 96 + i]

\* Characters next to the letter ranges and outside ASCII: "@", "[", "`", "{",
\* " ", "0", U+00E9, U+20AC and U+FEFF.
OtherChars == << 64, 91, 96, 123, 32, 48, 233, 8364, 65279 >>

MixedText == UpperLetters \o OtherChars \o LowerLetters

ClassicalTexts == { MixedText, TextAz, << >> }

\* Every second letter of a key in lower case.
MixedCase(key) == [i \in 1..Len(key) |-> IF i % 2 = 0 THEN toLowerCaseChar(key[i]) ELSE key[i]]

\* Substitution keys: the shuffles of the random streams, one of them in mixed
\* case, the reversed alphabet, the alphabet itself and "ABC".
MonoKeys ==
  { generateRandomKey(rnd) : rnd \in RandomStreams }
    \cup { MixedCase(generateRandomKey(ZeroStream)), Reverse(ALPHABET), ALPHABET, KeyABC }

DrawnClassical ==
  \/ \E t \in ClassicalTexts, s \in (-MaxShift)..MaxShift :
       call = [NoCall EXCEPT !.fn = "caesar", !.phase = "drawn",
                             !.args = [text |-> t, shift |-> s]]
  \/ \E t \in ClassicalTexts, s \in (-MaxShift)..MaxShift :
       call = [NoCall EXCEPT !.fn = "caesarDecrypt", !.phase = "drawn",
                             !.args = [text |-> t, shift |-> s]]
  \/ \E t \in {MixedText, TextAz}, a \in 1..25, b \in 0..25 :
       call = [NoCall EXCEPT !.fn = "affine", !.phase = "drawn",
                             !.args = [text |-> t, key |-> [a |-> a, b |-> b]]]
  \/ \E a \in (-2)..MaxKeyNum, b \in (-2)..MaxKeyNum :
       call = [NoCall EXCEPT !.fn = "validateAffineKey", !.phase = "drawn",
                             !.args = [key |-> [a |-> a, b |-> b]]]
  \/ \E t \in {MixedText, TextAz}, k \in MonoKeys :
       call = [NoCall EXCEPT !.fn = "monoalphabetic", !.phase = "drawn",
                             !.args = [text |-> t, key |-> k]]

\* caesarEncrypt(text, shift)
CallCaesarEncrypt ==
  /\ call.fn = "caesar" /\ call.phase = "drawn"
  /\ call' = [call EXCEPT !.phase = "encrypted",
                          !.mid = caesarEncrypt(call.args.text, call.args.shift)]
  /\ UNCHANGED appVars

\* caesarDecrypt(ciphertext, shift) on what caesarEncrypt returned
CallCaesarDecrypt ==
  /\ call.fn = "caesar" /\ call.phase = "encrypted"
  /\ call' = [call EXCEPT !.phase = "done",
                          !.result = caesarDecrypt(call.mid, call.args.shift)]
  /\ UNCHANGED appVars

\* caesarDecrypt(text, shift) on the drawn text
CallCaesarDecryptText ==
  /\ call.fn = "caesarDecrypt" /\ call.phase = "drawn"
  /\ call' = [call EXCEPT !.phase = "done",
                          !.result = caesarDecrypt(call.args.text, call.args.shift)]
  /\ UNCHANGED appVars

\* affineEncrypt(text, key)
CallAffineEncrypt ==
  /\ call.fn = "affine" /\ call.phase = "drawn"
  /\ call' = [call EXCEPT !.phase = "encrypted",
                          !.mid = affineEncrypt(call.args.text, call.args.key)]
  /\ UNCHANGED appVars

\* affineDecrypt(ciphertext, key) on what affineEncrypt returned
CallAffineDecryptEncrypted ==
  /\ call.fn = "affine" /\ call.phase = "encrypted"
  /\ call.mid.ok
  /\ call' = [call EXCEPT !.phase = "done",
                          !.result = affineDecrypt(call.mid.val, call.args.key)]
  /\ UNCHANGED appVars

\* validateAffineKey(key)
CallValidateAffineKey ==
  /\ call.fn = "validateAffineKey" /\ call.phase = "drawn"
  /\ call' = [call EXCEPT !.phase = "done", !.result = validateAffineKey(call.args.key)]
  /\ UNCHANGED appVars

\* monoalphabeticEncrypt(text, key)
CallMonoalphabeticEncrypt ==
  /\ call.fn = "monoalphabetic" /\ call.phase = "drawn"
  /\ call' = [call EXCEPT !.phase = "encrypted",
                          !.mid = monoalphabeticEncrypt(call.args.text, call.args.key)]
  /\ UNCHANGED appVars

\* monoalphabeticDecrypt(ciphertext, key) on what monoalphabeticEncrypt returned
CallMonoalphabeticDecrypt ==
  /\ call.fn = "monoalphabetic" /\ call.phase = "encrypted"
  /\ call.mid.ok
  /\ call' = [call EXCEPT !.phase = "done",
                          !.result = monoalphabeticDecrypt(call.mid.val, call.args.key)]
  /\ UNCHANGED appVars

\* "ABCDEFGHIJKLMNOPQRSTUVWXY", 25 letters
Key25 == SubSeq(ALPHABET, 1, 25)

\* 25 characters: the alphabet without "F" and "I", followed by U+FB01
LigatureKey == SelectSeq(ALPHABET, LAMBDA c : c \notin {70, 73}) \o << 64257 >>

\* 25 characters: the alphabet without "S", with U+00DF at the end
SharpSKey == SelectSeq(ALPHABET, LAMBDA c : c # 83) \o << 223 >>

\* 26 characters: the alphabet with U+017F in the place of "S"
LongSKey == [ALPHABET EXCEPT ![19] = 383]

\* 26 characters with "A" twice, with "A" and "a", and with "1" for "Z"
RepeatedKey == [ALPHABET EXCEPT ![2] = 65]

RepeatedFoldedKey == [ALPHABET EXCEPT ![2] = 97]

DigitKey == [ALPHABET EXCEPT ![26] = 49]

ValidatorKeys ==
  MonoKeys \cup { Key25, LigatureKey, SharpSKey, LongSKey, RepeatedKey, RepeatedFoldedKey,
                  DigitKey, ALPHABET \o << 65 >>, << >> }

\* Streams of random values for the shuffle: those of RandomStreams, and
\* streams with the largest value at every m-th call.
ShuffleStreams ==
  RandomStreams
    \cup { [i \in 1..25 |-> IF i % m = 0 THEN RandomDen - 1 ELSE 0] : m \in 2..5 }

\* Second factors of gmul: those of MixColumns and InvMixColumns, 0, 1 and
\* bytes with the high bit set.
GmulFactors == { 0, 1, 2, 3, 9, 11, 13, 14, 83, 128, 202, 255 }

DrawnKeysAndBytes ==
  \/ \E k \in ValidatorKeys :
       call = [NoCall EXCEPT !.fn = "validateMonoalphabeticKey", !.phase = "drawn",
                             !.args = [key |-> k, text |-> TextAz]]
  \/ \E rnd \in ShuffleStreams :
       call = [NoCall EXCEPT !.fn = "generateRandomKey", !.phase = "loop",
                             !.args = [rnd |-> rnd],
                             !.mid = [alphabet |-> ALPHABET, i |-> Len(ALPHABET) - 1]]
  \/ \E a \in 0..255, b \in GmulFactors :
       call = [NoCall EXCEPT !.fn = "gmul", !.phase = "drawn", !.args = [a |-> a, b |-> b]]

\* validateMonoalphabeticKey(key)
CallValidateMonoalphabeticKey ==
  /\ call.fn = "validateMonoalphabeticKey" /\ call.phase = "drawn"
  /\ call' = [call EXCEPT !.phase = "validated",
                          !.mid = validateMonoalphabeticKey(call.args.key)]
  /\ UNCHANGED appVars

\* monoalphabeticEncrypt(text, key) and monoalphabeticDecrypt(text, key)
CallMonoalphabeticWithKey ==
  /\ call.fn = "validateMonoalphabeticKey" /\ call.phase = "validated"
  /\ call' = [call EXCEPT !.phase = "done",
                          !.result =
                             [encrypt |-> monoalphabeticEncrypt(call.args.text, call.args.key),
                              decrypt |-> monoalphabeticDecrypt(call.args.text, call.args.key)]]
  /\ UNCHANGED appVars

\* One iteration of the loop of generateRandomKey
ShuffleSwap ==
  /\ call.fn = "generateRandomKey" /\ call.phase = "loop"
  /\ call.mid.i > 0
  /\ call' = [call EXCEPT !.mid =
                [alphabet |-> swap(call.mid.alphabet, call.mid.i,
                                   floorRandom(call.args.rnd[26 - call.mid.i], call.mid.i + 1)),
                 i |-> call.mid.i - 1]]
  /\ UNCHANGED appVars

\* return alphabet.join('')
ShuffleJoin ==
  /\ call.fn = "generateRandomKey" /\ call.phase = "loop"
  /\ call.mid.i <= 0
  /\ call' = [call EXCEPT !.phase = "done", !.result = call.mid.alphabet]
  /\ UNCHANGED appVars

\* gmul(a, b), and gmul(b, a) in mid
CallGmul ==
  /\ call.fn = "gmul" /\ call.phase = "drawn"
  /\ call' = [call EXCEPT !.phase = "done",
                          !.mid = gmul(call.args.b, call.args.a),
                          !.result = gmul(call.args.a, call.args.b)]
  /\ UNCHANGED appVars

InitParts == AppIdle /\ (DrawnPadding \/ DrawnAesParts \/ DrawnClassical \/ DrawnKeysAndBytes)

NextParts ==
  \/ CallUnpadPKCS7
  \/ CallAesDecryptPadded
  \/ CallPadPKCS7
  \/ CallUnpadPadded
  \/ CallAesEncryptWithKey
  \/ CallAesDecryptWithKey
  \/ CallAesEncryptBlock
  \/ CallHexToUint8Array
  \/ CallCaesarEncrypt
  \/ CallCaesarDecrypt
  \/ CallCaesarDecryptText
  \/ CallAffineEncrypt
  \/ CallAffineDecryptEncrypted
  \/ CallValidateAffineKey
  \/ CallMonoalphabeticEncrypt
  \/ CallMonoalphabeticDecrypt
  \/ CallValidateMonoalphabeticKey
  \/ CallMonoalphabeticWithKey
  \/ ShuffleSwap
  \/ ShuffleJoin
  \/ CallGmul

SpecParts == InitParts /\ [][NextParts]_vars

(***************************************************************************)
(* Properties of the parts                                                 *)
(***************************************************************************)
\* The data is block-aligned and its padding is invalid: the last byte is 0,
\* or greater than 16, or one of the bytes it counts differs from it.
BadPadding(data) ==
  LET last == data[Len(data)]
  IN \/ last = 0
     \/ last > 16
     \/ \E i \in (Len(data) - last + 1)..Len(data) : data[i] # last

\* C11: unpadPKCS7, and aesDecrypt of a ciphertext that decrypts to such data,
\* reject with a padding error ("Invalid padding value" or "Invalid padding")
\* every block-aligned input whose last byte is 0, whose last byte is greater
\* than 16, or in which a trailing byte counted by the last byte differs from
\* it; no data is returned.
C11_UnpadRejectsBadPadding ==
  (call.fn = "unpadPKCS7" /\ BadPadding(call.args.data)) =>
    /\ call.phase \in {"unpadded", "done"} =>
         ~call.mid.ok /\ call.mid.err \in {PaddingValueError, PaddingError}
    /\ call.phase = "done" =>
         ~call.result.ok /\ call.result.err \in {PaddingValueError, PaddingError}

\* C12: for data of n bytes padPKCS7 returns n + p bytes with
\* p = 16 - (n mod 16), so p is in 1..16 and block-aligned data gains 16
\* bytes; the first n bytes are the data, each of the last p bytes is p, and
\* unpadPKCS7 of the result returns the data.
C12_PadThenUnpad ==
  (call.fn = "padPKCS7" /\ call.phase \in {"padded", "done"}) =>
    LET n == Len(call.args.data)
        p == 16 - (n % 16)
    IN /\ p >= 1 /\ p <= 16
       /\ (n % 16 = 0) => p = 16
       /\ Len(call.mid) = n + p
       /\ SubSeq(call.mid, 1, n) = call.args.data
       /\ \A i \in (n + 1)..(n + p) : call.mid[i] = p
       /\ call.phase = "done" => call.result = Ok(call.args.data)

\* Block-aligned data of 16 bytes padded to 32 and unpadded again.
C12_Witness ==
  /\ call.fn = "padPKCS7" /\ call.phase = "done"
  /\ Len(call.args.data) = 16
  /\ Len(call.mid) = 32
  /\ call.result.ok /\ call.result.val = call.args.data

\* C13: with a key whose length is not 16, 24 or 32 bytes aesEncrypt and
\* aesDecrypt fail with "Invalid key length ..." on every input, the empty
\* plaintext and the empty ciphertext included, and return nothing; the
\* lengths 16, 24 and 32 select 10, 12 and 14 rounds.
C13_KeyLengthError ==
  /\ getKeyParams(16).nr = 10 /\ getKeyParams(24).nr = 12 /\ getKeyParams(32).nr = 14
  /\ (call.fn = "keyLength" /\ Len(call.args.key) \notin {16, 24, 32}) =>
       /\ call.phase \in {"encrypted", "done"} => call.mid = Throw(KeyLengthError)
       /\ call.phase = "done" => call.result = Throw(KeyLengthError)

\* C14: aesEncryptBlock of the all-zero 16-byte block under the all-zero
\* 16-byte key returns the bytes 66e94bd4ef8a2c3b884cfa59ca342b2e.
C14_ZeroBlockVector ==
  (call.fn = "aesEncryptBlock" /\ call.phase = "done"
     /\ call.args.plaintext = ZeroBlock /\ call.args.key = ZeroBlock) =>
    call.result = Ok(<< 102, 233, 75, 212, 239, 138, 44, 59,
                        136, 76, 250, 89, 202, 52, 43, 46 >>)

\* The all-zero block has been encrypted under the all-zero 16-byte key.
C14_Witness ==
  /\ call.fn = "aesEncryptBlock" /\ call.phase = "done"
  /\ call.args.plaintext = ZeroBlock /\ call.args.key = ZeroBlock
  /\ call.result.ok /\ Len(call.result.val) = 16

\* The hex string is malformed: without its whitespace it has an odd length or
\* holds a character that is no hexadecimal digit.
MalformedHex(hexStr) ==
  LET hex == SelectSeq(hexStr, LAMBDA c : ~IsWhiteSpace(c))
  IN Len(hex) % 2 # 0 \/ \E i \in 1..Len(hex) : HexDigit(hex[i]) < 0

\* C15: hexToUint8Array fails on every malformed hex string (odd length after
\* whitespace removal, or a character that is no hexadecimal digit) and never
\* returns bytes for it.
C15_MalformedHexRejected ==
  (call.fn = "hexToUint8Array" /\ call.phase = "done" /\ MalformedHex(call.args.hexStr))
    => ~call.result.ok

\* C16: for every shift s in 0..25 and every text x,
\* caesarDecrypt(caesarEncrypt(x, s), s) = x, and with s = 0 both
\* caesarEncrypt(x, 0) and caesarDecrypt(x, 0) equal x.
C16_CaesarRoundTrip ==
  /\ (call.fn = "caesar" /\ call.args.shift \in 0..25) =>
       /\ (call.phase \in {"encrypted", "done"} /\ call.args.shift = 0) =>
            call.mid = call.args.text
       /\ call.phase = "done" => call.result = call.args.text
  /\ (call.fn = "caesarDecrypt" /\ call.phase = "done" /\ call.args.shift = 0) =>
       call.result = call.args.text

\* The text with every letter of both cases shifted by 25 and back.
C16_Witness ==
  /\ call.fn = "caesar" /\ call.phase = "done"
  /\ call.args.shift = 25
  /\ call.args.text = MixedText
  /\ call.mid[1] = 90 /\ call.mid[61] = 121
  /\ call.result = call.args.text

\* C17: for every integer shift s outside 0..25, caesarEncrypt(x, s) equals
\* caesarEncrypt(x, r) for the non-negative residue r of s modulo 26, every
\* upper-case letter becomes an upper-case letter, every lower-case letter a
\* lower-case letter, and caesarDecrypt(caesarEncrypt(x, s), s) = x.
C17_CaesarShiftNormalised ==
  (call.fn = "caesar" /\ call.args.shift \notin 0..25
     /\ call.phase \in {"encrypted", "done"}) =>
    /\ call.mid = caesarEncrypt(call.args.text, call.args.shift % 26)
    /\ Len(call.mid) = Len(call.args.text)
    /\ \A i \in 1..Len(call.args.text) :
         /\ IsUpper(call.args.text[i]) => IsUpper(call.mid[i])
         /\ IsLower(call.args.text[i]) => IsLower(call.mid[i])
    /\ call.phase = "done" => call.result = call.args.text

\* A negative shift below -26: -27 acts as the shift 25.
C17_Witness ==
  /\ call.fn = "caesar" /\ call.phase = "done"
  /\ call.args.shift = -27
  /\ call.args.text = MixedText
  /\ call.mid[1] = 90 /\ call.mid[61] = 121
  /\ call.result = call.args.text

\* C18: for each of the 12 values of a coprime with 26, each b in 0..25 and
\* every text x, affineDecrypt(affineEncrypt(x, (a, b)), (a, b)) = x; the
\* encryption leaves a non-letter as it is and keeps the case of a letter.
C18_AffineRoundTrip ==
  (call.fn = "affine" /\ call.phase \in {"encrypted", "done"}
     /\ call.args.key.a \in {1, 3, 5, 7, 9, 11, 15, 17, 19, 21, 23, 25}
     /\ call.args.key.b \in 0..25) =>
    /\ call.mid.ok
    /\ Len(call.mid.val) = Len(call.args.text)
    /\ \A i \in 1..Len(call.args.text) :
         LET c == call.args.text[i]
         IN /\ IsUpper(c) => IsUpper(call.mid.val[i])
            /\ IsLower(c) => IsLower(call.mid.val[i])
            /\ (~IsUpper(c) /\ ~IsLower(c)) => call.mid.val[i] = c
    /\ call.phase = "done" => call.result = Ok(call.args.text)

\* The text with every letter of both cases under the key (5, 8).
C18_Witness ==
  /\ call.fn = "affine" /\ call.phase = "done"
  /\ call.args.key = [a |-> 5, b |-> 8]
  /\ call.args.text = MixedText
  /\ call.mid.val # call.args.text
  /\ call.result.val = call.args.text

\* C19: validateAffineKey accepts an integer key (a, b) if and only if a is
\* one of 1, 3, 5, 7, 9, 11, 15, 17, 19, 21, 23, 25 and b is in 0..25; (4, 1)
\* is rejected and (5, 8) is accepted.
C19_AffineKeyValidator ==
  (call.fn = "validateAffineKey" /\ call.phase = "done") =>
    /\ call.result <=>
         /\ call.args.key.a \in {1, 3, 5, 7, 9, 11, 15, 17, 19, 21, 23, 25}
         /\ call.args.key.b \in 0..25
    /\ call.args.key = [a |-> 4, b |-> 1] => ~call.result
    /\ call.args.key = [a |-> 5, b |-> 8] => call.result

\* The key (5, 8) has been accepted.
C19_Witness ==
  /\ call.fn = "validateAffineKey" /\ call.phase = "done"
  /\ call.args.key = [a |-> 5, b |-> 8]
  /\ call.result = TRUE

\* C20: for every key k that validateMonoalphabeticKey accepts and every text
\* x, monoalphabeticEncrypt maps the letter at alphabet position p to the p-th
\* letter of the key in the same case and leaves a non-letter as it is, and
\* monoalphabeticDecrypt(monoalphabeticEncrypt(x, k), k) = x.
C20_MonoalphabeticRoundTrip ==
  (call.fn = "monoalphabetic" /\ call.phase \in {"encrypted", "done"}
     /\ validateMonoalphabeticKey(call.args.key)) =>
    /\ call.mid.ok
    /\ Len(call.mid.val) = Len(call.args.text)
    /\ \A i \in 1..Len(call.args.text) :
         LET c == call.args.text[i]
             upperKey == toUpperCase(call.args.key)
         IN /\ IsUpper(c) => call.mid.val[i] = upperKey[c - 64]
            /\ IsLower(c) => call.mid.val[i] = upperKey[c - 96] + 32
            /\ (~IsUpper(c) /\ ~IsLower(c)) => call.mid.val[i] = c
    /\ call.phase = "done" => call.result = Ok(call.args.text)

\* The text with every letter of both cases under the shuffle "BCD...ZA".
C20_Witness ==
  /\ call.fn = "monoalphabetic" /\ call.phase = "done"
  /\ call.args.key = generateRandomKey(ZeroStream)
  /\ call.args.text = MixedText
  /\ call.mid.val # call.args.text
  /\ call.result.val = call.args.text

\* The key is a permutation of A..Z: 26 characters, each an upper-case letter,
\* none twice.
IsPermutationOfAlphabet(key) ==
  /\ Len(key) = 26
  /\ \A i \in 1..26 : IsUpper(key[i])
  /\ \A i, k \in 1..26 : i # k => key[i] # key[k]

\* C21: validateMonoalphabeticKey accepts a key if and only if its upper-case
\* folding has exactly 26 characters, each a letter A-Z and none twice; it
\* rejects every key of 25 characters and every key with a repeated letter;
\* monoalphabeticEncrypt and monoalphabeticDecrypt fail for every rejected key.
C21_MonoalphabeticKeyValidator ==
  (call.fn = "validateMonoalphabeticKey" /\ call.phase \in {"validated", "done"}) =>
    /\ call.mid <=> IsPermutationOfAlphabet(toUpperCase(call.args.key))
    /\ Len(call.args.key) = 25 => ~call.mid
    /\ (\E i, k \in 1..Len(call.args.key) : i # k /\ call.args.key[i] = call.args.key[k])
         => ~call.mid
    /\ (call.phase = "done" /\ ~call.mid) =>
         ~call.result.encrypt.ok /\ ~call.result.decrypt.ok

\* C22: for every stream of random values, the working array is a permutation
\* of A..Z after every swap of the Fisher-Yates loop, and generateRandomKey
\* returns a string of 26 letters that is a permutation of A..Z.
C22_ShuffleIsPermutation ==
  (call.fn = "generateRandomKey") =>
    /\ IsPermutationOfAlphabet(call.mid.alphabet)
    /\ call.phase = "done" =>
         /\ IsPermutationOfAlphabet(call.result)
         /\ call.result = generateRandomKey(call.args.rnd)

\* The loop has run to its end on a stream that moves letters.
C22_Witness ==
  /\ call.fn = "generateRandomKey" /\ call.phase = "done"
  /\ call.mid.i = 0
  /\ call.result # ALPHABET
  /\ IsPermutationOfAlphabet(call.result)

\* The product of the polynomials a and b over GF(2), without reduction.
RECURSIVE CarrylessProduct(_, _)
CarrylessProduct(a, b) ==
  IF b = 0 THEN 0
  ELSE Xor(IF b % 2 = 1 THEN a ELSE 0, 2 * CarrylessProduct(a, b \div 2))

\* c reduced modulo x^8 + x^4 + x^3 + x + 1 (283), from the bit k downwards.
RECURSIVE ReducedFrom(_, _)
ReducedFrom(c, k) ==
  IF k < 8 THEN c
  ELSE ReducedFrom(IF (c \div (2 ^ k)) % 2 = 1 THEN Xor(c, 283 * (2 ^ (k - 8))) ELSE c, k - 1)

\* C24: for all bytes a and b, gmul(a, b) is the product of a and b in
\* GF(2^8) modulo x^8 + x^4 + x^3 + x + 1 and lies in 0..255; gmul(a, 1) = a
\* and gmul(a, b) = gmul(b, a).
C24_GmulIsFieldProduct ==
  (call.fn = "gmul" /\ call.phase = "done") =>
    /\ call.result = ReducedFrom(CarrylessProduct(call.args.a, call.args.b), 14)
    /\ call.result \in 0..255
    /\ call.args.b = 1 => call.result = call.args.a
    /\ call.result = call.mid

\* A product that needs the reduction: gmul(255, 202).
C24_Witness ==
  /\ call.fn = "gmul" /\ call.phase = "done"
  /\ call.args.a = 255 /\ call.args.b = 202
  /\ call.result \in 0..255
  /\ CarrylessProduct(255, 202) > 255

(***************************************************************************)
(* Properties of the application                                           *)
(***************************************************************************)
\* C25: after any sequence of add, remove and drag operations the selected
\* pipeline holds no algorithm id twice and only ids of the registry; the key
\* table has one key for the id of each step, the steps of the encrypt and of
\* the decrypt traversal are the same algorithms, and every operation a run
\* has called was given the key bound to its algorithm.
C25_PipelineIdsDistinct ==
  /\ \A i, k \in 1..Len(algorithmOrder) :
       i # k => algorithmOrder[i].id # algorithmOrder[k].id
  /\ \A i \in 1..Len(algorithmOrder) :
       /\ getAlgorithm(algorithmOrder[i].id) # undefined
       /\ algorithmOrder[i].id \in DOMAIN keys
  /\ { orderedAlgorithms("encrypt", algorithmOrder)[i].id : i \in 1..Len(algorithmOrder) }
       = { orderedAlgorithms("decrypt", algorithmOrder)[i].id : i \in 1..Len(algorithmOrder) }
  /\ \A k \in 1..Len(run.applied) : run.applied[k].key = keys[run.applied[k].id]

\* Three operations of the selector have left two algorithms, the later one
\* of the registry first.
C25_Witness ==
  /\ edits = 3
  /\ Len(algorithmOrder) = 2
  /\ algorithmOrder[1].id = "affine"
  /\ algorithmOrder[2].id = "caesar"

\* The output of steps k .. of the ordered list on text, or the first failure.
RECURSIVE PipelineFrom(_, _, _, _)
PipelineFrom(ordered, k, text, p) ==
  IF k > Len(ordered) THEN Ok(text)
  ELSE IF getAlgorithm(ordered[k].id) = undefined THEN Throw(<< >>)
  ELSE andThen(IF p.mode = "encrypt"
                 THEN encrypt(getAlgorithm(ordered[k].id), text, p.keys[ordered[k].id])
                 ELSE decrypt(getAlgorithm(ordered[k].id), text, p.keys[ordered[k].id]),
               LAMBDA output : PipelineFrom(ordered, k + 1, output, p))

\* No run is in progress: the component is not rendered, or it is not
\* processing and no timer is pending.
NoRunInProgress == ~pv.mounted \/ (~pv.isProcessing /\ pv.timer = "none")

\* C26: whenever no run is in progress and the output text is not empty, the
\* output text is the result of the current pipeline (algorithm order, keys
\* and mode) on the current input text; the output of an earlier
\* configuration does not remain after a change whose run fails or that
\* empties the input.
C26_OutputIsOfCurrentInputs ==
  (NoRunInProgress /\ outputText # << >>) =>
    /\ inputText # << >>
    /\ Len(algorithmOrder) > 0
    /\ PipelineFrom(orderedAlgorithms(mode, algorithmOrder), 1, inputText, Props)
         = Ok(outputText)

C23_OnlyFinalResultDelivered ==
  /\ Len(run.delivered) <= 1
  /\ Len(run.delivered) = 1 =>
       /\ Len(run.applied) = Len(algorithmOrder)
       /\ run.applied[Len(run.applied)].outcome.ok
       /\ run.delivered[1] = run.applied[Len(run.applied)].outcome.val
       /\ pv.timer = "none"

\* A run of two steps has handed over its result, which differs from the
\* output of its first step.
C23_Witness ==
  /\ Len(run.delivered) = 1
  /\ Len(run.applied) = 2
  /\ run.delivered[1] # << >>
  /\ run.delivered[1] # run.applied[1].outcome.val

(***************************************************************************)
(* Properties of the timeouts of a run                                     *)
(***************************************************************************)
\* C27: when the input text, the order, the keys or the mode change while a
\* timeout of a run is pending, the run is cancelled: at most one timeout is
\* pending, it is the one animationTimeoutRef holds, and it belongs to the
\* run of the current props, so that no timeout of a run that was superseded
\* can fire.
C27_SupersededRunCancelled ==
  /\ pv.orphans = << >>
  /\ pv.timer # "none" => pv.mounted /\ pv.closure.p = Props

\* A pending timeout has been cleared and the timeout of the run that
\* followed is pending.
C27_Witness ==
  /\ pv.mounted
  /\ pv.cancelled
  /\ pv.timer = "char"
  /\ Len(run.applied) = 1
  /\ edits = MaxEdits

(***************************************************************************)
(* A run whose inputs do not change and whose timeouts fire                *)
(*                                                                         *)
(* The browser runs the callback of every pending timeout after its delay, *)
(* hence the weak fairness of TimerFire; the parent leaves the props as    *)
(* they are.                                                               *)
(***************************************************************************)
NextRunFair == TimerFire

SpecRunFair == InitRun /\ [][NextRunFair]_vars /\ WF_vars(TimerFire)

\* A step of the run has failed: its algorithm is not registered or its
\* operation has thrown.
StepFailed ==
  \/ run.lookupFailed
  \/ \E k \in 1..Len(run.applied) : ~run.applied[k].outcome.ok

\* The run has ended: every step has been executed and is marked complete,
\* onResult has been called with the output of the last step,
\* onProcessComplete has been called, the processing flag is false and no
\* timeout is pending.
RunEnded ==
  /\ Len(pv.steps) = Len(algorithmOrder)
  /\ \A i \in 1..Len(pv.steps) : pv.steps[i].isComplete
  /\ Len(run.applied) = Len(algorithmOrder)
  /\ run.delivered = << run.applied[Len(run.applied)].outcome.val >>
  /\ outputText = run.delivered[1]
  /\ isProcessComplete
  /\ ~pv.isProcessing
  /\ PendingTimers = {}

\* The steps are marked complete in order.
CompleteInOrder ==
  \A i, k \in 1..Len(pv.steps) : (i < k /\ pv.steps[k].isComplete) => pv.steps[i].isComplete

\* C28: with a text, at least one algorithm and inputs that do not change, a
\* run whose pending timeouts eventually fire terminates unless a step fails:
\* the steps are marked complete in order, onResult is called with the final
\* output, onProcessComplete is called and the processing flag becomes false,
\* and the run stays ended.
C28_RunTerminates ==
  /\ <>(StepFailed \/ RunEnded)
  /\ [](RunEnded => [](RunEnded))
  /\ [](StepFailed \/ CompleteInOrder)

\* A run of two steps, none of which fails, has ended with the output of the
\* pipeline on the input text.
C28_Witness ==
  /\ ~StepFailed
  /\ Len(algorithmOrder) = 2
  /\ RunEnded
  /\ outputText # << >>
  /\ PipelineFrom(orderedAlgorithms(mode, algorithmOrder), 1, inputText, Props)
       = Ok(outputText)

(***************************************************************************)
(* The application with its analysis panel                                 *)
(*                                                                         *)
(* The user also shows and hides the panel, and the requests that          *)
(* runAnalysis has sent are answered, in any order.                        *)
(***************************************************************************)
MaxInFlight == 2

\* onClick={() => setShowAnalysis(!showAnalysis)}: isVisible is a dependency
\* of the second effect.
handleShowAnalysis ==
  /\ Len(ca.requests) < MaxInFlight
  /\ \E shown \in { [ca EXCEPT !.showAnalysis = ~@] } :
       ca' = IF canRunAnalysis(shown, AppState) /\ ~shown.hasRunAnalysis
               THEN runAnalysis(shown, AppState)
               ELSE shown
  /\ UNCHANGED << inputText, outputText, algorithmOrder, keys, mode, isProcessComplete,
                  pv, run, roundTrip, refreshed, edits, call >>

\* runAnalysis after its await: the request at position i is answered with
\* an analysis (failed is false) or with result.error.
AnalysisResponds(i, failed) ==
  /\ i \in 1..Len(ca.requests)
  /\ ca' = IF failed
             THEN [ca EXCEPT !.error = "error", !.isLoading = FALSE,
                             !.requests = Without(@, i)]
             ELSE [ca EXCEPT !.analysis = ca.requests[i], !.hasRunAnalysis = TRUE,
                             !.isLoading = FALSE, !.requests = Without(@, i)]
  /\ UNCHANGED << inputText, outputText, algorithmOrder, keys, mode, isProcessComplete,
                  pv, run, roundTrip, refreshed, edits, call >>

NextAnalysis ==
  \/ Next
  \/ handleShowAnalysis
  \/ \E i \in 1..Len(ca.requests), failed \in BOOLEAN : AnalysisResponds(i, failed)

SpecAnalysis == Init /\ [][NextAnalysis]_vars

\* The pipeline run of a request: its steps in the order of its mode, from
\* its input text.
RunOfRequest(request) ==
  PipelineFrom(orderedAlgorithms(request.mode, request.pipeline), 1, request.inputText,
               [mode |-> request.mode,
                keys |-> [id \in { request.pipeline[i].id : i \in 1..Len(request.pipeline) } |->
                            (CHOOSE step \in { request.pipeline[i] : i \in 1..Len(request.pipeline) } :
                               step.id = id).key]])

\* C30: every request carries the output of a completed run of its pipeline
\* on its input text; and once a request for a changed configuration has
\* been issued, the analysis that is displayed and marked as run
\* (hasRunAnalysis) is not the answer to a request for an earlier
\* configuration.
C30_NoLateAnalysis ==
  /\ \A i \in 1..Len(ca.requests) :
       RunOfRequest(ca.requests[i]) = Ok(ca.requests[i].outputText)
  /\ ca.hasRunAnalysis => ca.analysis = ca.newest
====
